---------------------------- MODULE Spec2Model ----------------------------
(***************************************************************************)
(* Scene-graph editor: the persistent tree algebra (model/tree.ts), the    *)
(* undo/redo history hook (hooks/useUndoRedo.ts) and the App handlers      *)
(* that drive them (App.tsx).                                              *)
(*                                                                         *)
(* Object identity.  A JavaScript Node object is a record carrying a       *)
(* field `ref`, the address the object was allocated at.  `a === b` on     *)
(* nodes is equality of `ref`.  Every function that allocates takes the    *)
(* next free address and returns the one after its last allocation.        *)
(*                                                                         *)
(* Ids.  uuidv4() is a counter: the k-th call returns "u<k>".              *)
(* Indices are 0-based as in the source; sequences are 1-based.            *)
(***************************************************************************)
EXTENDS Integers, Sequences, FiniteSets, TLC

(***************************************************************************)
(* Bounds of the model.                                                    *)
(***************************************************************************)
\* number of uuidv4() calls after which no further node is created
MaxUuid == 3
\* number of object allocations after which no further operation starts
MaxRef == 6
\* number of tree-changing edits in the run that fills the history
MaxEdits == 105
\* number of states undone at a time in the run that fills the history
MaxUndone == 3

(***************************************************************************)
(* Data model (model/types.ts).                                            *)
(***************************************************************************)
\* JavaScript null / undefined where a Node is expected
Null == [null |-> TRUE]

\* JavaScript null where an id string is expected (parentId, selectedId)
NullId == "null"

\* the `render` property of a Node: no such key, key holding undefined, or
\* an object { primitive }
RenderAbsent == [kind |-> "absent"]

RenderUndefined == [kind |-> "undefined"]

RenderOf(primitive) == [kind |-> "object", primitive |-> primitive]

\* truthiness of a `render` value
Truthy(render) == render.kind = "object"

\* the k-th result of uuidv4()
uuidv4(k) == "u" \o ToString(k)

Min(a, b) == IF a < b THEN a ELSE b

Max(a, b) == IF a > b THEN a ELSE b

\* clamp with Math.min and Math.max exchanged
clamp_swapped(n, min, max) == Min(min, Max(max, n))

\* utils/math.ts
clamp(n, min, max) == Max(min, Min(max, n))

(***************************************************************************)
(* Tree algebra (model/tree.ts).                                           *)
(***************************************************************************)
\* createNode: `transform` is a Partial<Transform>, a record holding only
\* the fields given; `render` is RenderAbsent when the argument is omitted.
\* `r` is the address of the new object, `k` the index of the uuidv4() call.
createNode(name, transform, render, isRoot, r, k) ==
    [ ref       |-> r,
      id        |-> IF isRoot THEN "root" ELSE uuidv4(k),
      name      |-> name,
      transform |-> [ position |-> IF "position" \in DOMAIN transform
                                   THEN transform.position ELSE <<0, 0, 0>>,
                      scale    |-> IF "scale" \in DOMAIN transform
                                   THEN transform.scale ELSE <<1, 1, 1>>,
                      rotation |-> IF "rotation" \in DOMAIN transform
                                   THEN transform.rotation ELSE <<0, 0, 0>> ],
      children  |-> <<>>,
      render    |-> IF Truthy(render) THEN render ELSE RenderAbsent ]

\* the rebuilt node taking the default transform instead of a copy of its own
WithChildren_defaultTransform(root, children, r) ==
    [ ref       |-> r,
      id        |-> root.id,
      name      |-> root.name,
      transform |-> [position |-> <<0, 0, 0>>, scale |-> <<1, 1, 1>>,
                     rotation |-> <<0, 0, 0>>],
      children  |-> children,
      render    |-> IF Truthy(root.render) THEN root.render ELSE RenderUndefined ]

\* { ...root, transform: { ...root.transform }, children,
\*   render: root.render ? { ...root.render } : undefined }
\* allocated at address r
WithChildren(root, children, r) ==
    [ ref       |-> r,
      id        |-> root.id,
      name      |-> root.name,
      transform |-> root.transform,
      children  |-> children,
      render    |-> IF Truthy(root.render) THEN root.render ELSE RenderUndefined ]

\* `updated !== child` taken to be true whatever the two objects are
DiffRef_always(a, b) == TRUE

\* a !== b on Node | null
DiffRef(a, b) == IF a = Null \/ b = Null THEN a # b ELSE a.ref # b.ref

\* a ?? b on Node | null
Coalesce(a, b) == IF a = Null THEN b ELSE a

RECURSIVE addChild(_, _, _, _)
\* addChild putting the node in front of the parent's children
addChild_prepend(root, parentId, node, r) ==
    IF root = Null \/ node = Null THEN [val |-> root, next |-> r]
    ELSE IF root.id = parentId
    THEN [val  |-> WithChildren(root, <<node>> \o root.children, r),
          next |-> r + 1]
    ELSE LET RECURSIVE map(_, _)
             map(i, acc) ==
                 IF i > Len(root.children) THEN acc
                 ELSE LET child == root.children[i]
                          updated == addChild(child, parentId, node, acc.next)
                      IN map(i + 1,
                             [vals     |-> Append(acc.vals, Coalesce(updated.val, child)),
                              modified |-> acc.modified \/ DiffRef(updated.val, child),
                              next     |-> updated.next])
             m == map(1, [vals |-> <<>>, modified |-> FALSE, next |-> r])
         IN IF ~m.modified THEN [val |-> root, next |-> m.next]
            ELSE [val |-> WithChildren(root, m.vals, m.next), next |-> m.next + 1]

\* addChild taking the node for the tree when there is no root
addChild_adoptsNode(root, parentId, node, r) ==
    IF root = Null THEN [val |-> node, next |-> r]
    ELSE addChild_prepend(root, parentId, node, r)

\* returns [val: the returned root, next: the next free address]
addChild(root, parentId, node, r) ==
    IF root = Null \/ node = Null THEN [val |-> root, next |-> r]
    ELSE IF root.id = parentId
    THEN [val  |-> WithChildren(root, Append(root.children, node), r),
          next |-> r + 1]
    ELSE LET RECURSIVE map(_, _)
             map(i, acc) ==
                 IF i > Len(root.children) THEN acc
                 ELSE LET child == root.children[i]
                          updated == addChild(child, parentId, node, acc.next)
                      IN map(i + 1,
                             [vals     |-> Append(acc.vals, Coalesce(updated.val, child)),
                              modified |-> acc.modified \/ DiffRef(updated.val, child),
                              next     |-> updated.next])
             m == map(1, [vals |-> <<>>, modified |-> FALSE, next |-> r])
         IN IF ~m.modified THEN [val |-> root, next |-> m.next]
            ELSE [val |-> WithChildren(root, m.vals, m.next), next |-> m.next + 1]

\* seq.filter(child => child !== null)
FilterNonNull(seq) == SelectSeq(seq, LAMBDA c : c # Null)

RECURSIVE removeNode(_, _, _)
\* removeNode with `modified` starting out true: every visited node is rebuilt
removeNode_alwaysRebuilds(root, targetId, r) ==
    IF root = Null THEN [newRoot |-> Null, removed |-> Null, next |-> r]
    ELSE IF root.id = targetId THEN [newRoot |-> Null, removed |-> root, next |-> r]
    ELSE LET RECURSIVE map(_, _)
             map(i, acc) ==
                 IF i > Len(root.children) THEN acc
                 ELSE LET child == root.children[i]
                          res == removeNode(child, targetId, acc.next)
                      IN map(i + 1,
                             [vals     |-> Append(acc.vals, res.newRoot),
                              removed  |-> IF res.removed # Null THEN res.removed
                                           ELSE acc.removed,
                              modified |-> acc.modified \/ res.removed # Null,
                              next     |-> res.next])
             m == map(1, [vals |-> <<>>, removed |-> Null, modified |-> TRUE,
                          next |-> r])
         IN IF ~m.modified THEN [newRoot |-> root, removed |-> Null, next |-> m.next]
            ELSE [newRoot |-> WithChildren(root, FilterNonNull(m.vals), m.next),
                  removed |-> m.removed,
                  next    |-> m.next + 1]

\* removeNode putting the children of the removed node in its place
removeNode_promotesChildren(root, targetId, r) ==
    IF root = Null THEN [newRoot |-> Null, removed |-> Null, next |-> r]
    ELSE IF root.id = targetId THEN [newRoot |-> Null, removed |-> root, next |-> r]
    ELSE LET RECURSIVE map(_, _)
             map(i, acc) ==
                 IF i > Len(root.children) THEN acc
                 ELSE LET child == root.children[i]
                          res == removeNode(child, targetId, acc.next)
                      IN map(i + 1,
                             [vals     |-> IF res.newRoot = Null /\ res.removed # Null
                                           THEN acc.vals \o res.removed.children
                                           ELSE Append(acc.vals, res.newRoot),
                              removed  |-> IF res.removed # Null THEN res.removed
                                           ELSE acc.removed,
                              modified |-> acc.modified \/ res.removed # Null,
                              next     |-> res.next])
             m == map(1, [vals |-> <<>>, removed |-> Null, modified |-> FALSE,
                          next |-> r])
         IN IF ~m.modified THEN [newRoot |-> root, removed |-> Null, next |-> m.next]
            ELSE [newRoot |-> WithChildren(root, FilterNonNull(m.vals), m.next),
                  removed |-> m.removed,
                  next    |-> m.next + 1]

\* removeNode returning the matched node as newRoot too
removeNode_keepsRoot(root, targetId, r) ==
    IF root = Null THEN [newRoot |-> Null, removed |-> Null, next |-> r]
    ELSE IF root.id = targetId THEN [newRoot |-> root, removed |-> root, next |-> r]
    ELSE LET RECURSIVE map(_, _)
             map(i, acc) ==
                 IF i > Len(root.children) THEN acc
                 ELSE LET child == root.children[i]
                          res == removeNode(child, targetId, acc.next)
                      IN map(i + 1,
                             [vals     |-> Append(acc.vals, res.newRoot),
                              removed  |-> IF res.removed # Null THEN res.removed
                                           ELSE acc.removed,
                              modified |-> acc.modified \/ res.removed # Null,
                              next     |-> res.next])
             m == map(1, [vals |-> <<>>, removed |-> Null, modified |-> FALSE,
                          next |-> r])
         IN IF ~m.modified THEN [newRoot |-> root, removed |-> Null, next |-> m.next]
            ELSE [newRoot |-> WithChildren(root, FilterNonNull(m.vals), m.next),
                  removed |-> m.removed,
                  next    |-> m.next + 1]

\* removeNode handing back the matched node without its children
removeNode_removedLosesChildren(root, targetId, r) ==
    IF root = Null THEN [newRoot |-> Null, removed |-> Null, next |-> r]
    ELSE IF root.id = targetId
    THEN [newRoot |-> Null, removed |-> WithChildren(root, <<>>, r), next |-> r + 1]
    ELSE LET RECURSIVE map(_, _)
             map(i, acc) ==
                 IF i > Len(root.children) THEN acc
                 ELSE LET child == root.children[i]
                          res == removeNode(child, targetId, acc.next)
                      IN map(i + 1,
                             [vals     |-> Append(acc.vals, res.newRoot),
                              removed  |-> IF res.removed # Null THEN res.removed
                                           ELSE acc.removed,
                              modified |-> acc.modified \/ res.removed # Null,
                              next     |-> res.next])
             m == map(1, [vals |-> <<>>, removed |-> Null, modified |-> FALSE,
                          next |-> r])
         IN IF ~m.modified THEN [newRoot |-> root, removed |-> Null, next |-> m.next]
            ELSE [newRoot |-> WithChildren(root, FilterNonNull(m.vals), m.next),
                  removed |-> m.removed,
                  next    |-> m.next + 1]

\* returns [newRoot, removed, next]
removeNode(root, targetId, r) ==
    IF root = Null THEN [newRoot |-> Null, removed |-> Null, next |-> r]
    ELSE IF root.id = targetId THEN [newRoot |-> Null, removed |-> root, next |-> r]
    ELSE LET RECURSIVE map(_, _)
             map(i, acc) ==
                 IF i > Len(root.children) THEN acc
                 ELSE LET child == root.children[i]
                          res == removeNode(child, targetId, acc.next)
                      IN map(i + 1,
                             [vals     |-> Append(acc.vals, res.newRoot),
                              removed  |-> IF res.removed # Null THEN res.removed
                                           ELSE acc.removed,
                              modified |-> acc.modified \/ res.removed # Null,
                              next     |-> res.next])
             m == map(1, [vals |-> <<>>, removed |-> Null, modified |-> FALSE,
                          next |-> r])
         IN IF ~m.modified THEN [newRoot |-> root, removed |-> Null, next |-> m.next]
            ELSE [newRoot |-> WithChildren(root, FilterNonNull(m.vals), m.next),
                  removed |-> m.removed,
                  next    |-> m.next + 1]

RECURSIVE findNode(_, _)
\* findNode looking no further than the children of the root
findNode_shallow(root, targetId) ==
    IF root = Null THEN Null
    ELSE IF root.id = targetId THEN root
    ELSE LET RECURSIVE loop(_)
             loop(i) ==
                 IF i > Len(root.children) THEN Null
                 ELSE IF root.children[i].id = targetId THEN root.children[i]
                 ELSE loop(i + 1)
         IN loop(1)

findNode(root, targetId) ==
    IF root = Null THEN Null
    ELSE IF root.id = targetId THEN root
    ELSE LET RECURSIVE loop(_)
             loop(i) ==
                 IF i > Len(root.children) THEN Null
                 ELSE LET found == findNode(root.children[i], targetId)
                      IN IF found # Null THEN found ELSE loop(i + 1)
         IN loop(1)

RECURSIVE findParentAndIndex(_, _)
\* findParentAndIndex counting positions from 1
findParentAndIndex_oneBased(root, targetId) ==
    IF root = Null THEN Null
    ELSE IF root.id = targetId THEN [parentId |-> NullId, indexInParent |-> -1]
    ELSE LET RECURSIVE loop(_)
             loop(i) ==
                 IF i > Len(root.children) THEN Null
                 ELSE LET child == root.children[i]
                      IN IF child.id = targetId
                         THEN [parentId |-> root.id, indexInParent |-> i]
                         ELSE LET found == findParentAndIndex(child, targetId)
                              IN IF found # Null THEN found ELSE loop(i + 1)
         IN loop(1)

\* returns Null, or [parentId, indexInParent] (indexInParent 0-based)
findParentAndIndex(root, targetId) ==
    IF root = Null THEN Null
    ELSE IF root.id = targetId THEN [parentId |-> NullId, indexInParent |-> -1]
    ELSE LET RECURSIVE loop(_)
             loop(i) ==
                 IF i > Len(root.children) THEN Null
                 ELSE LET child == root.children[i]
                      IN IF child.id = targetId
                         THEN [parentId |-> root.id, indexInParent |-> i - 1]
                         ELSE LET found == findParentAndIndex(child, targetId)
                              IN IF found # Null THEN found ELSE loop(i + 1)
         IN loop(1)

\* the spread taken in the other order: the existing keys win
Merge_priorWins(a, b) ==
    [k \in DOMAIN a \cup DOMAIN b |-> IF k \in DOMAIN a THEN a[k] ELSE b[k]]

\* { ...a, ...b } on objects given as records
Merge(a, b) ==
    [k \in DOMAIN a \cup DOMAIN b |-> IF k \in DOMAIN b THEN b[k] ELSE a[k]]

RECURSIVE updateNode(_, _, _, _)
\* `updates` is a record holding only the fields given (name, transform,
\* render); updates.transform holds only the vectors given.
\* returns [val, next]
updateNode(root, targetId, updates, r) ==
    IF root = Null THEN [val |-> Null, next |-> r]
    ELSE IF root.id = targetId
    THEN LET nextTransform ==
                 IF "transform" \in DOMAIN updates
                 THEN [ position |-> IF "position" \in DOMAIN updates.transform
                                     THEN updates.transform.position
                                     ELSE root.transform.position,
                        rotation |-> IF "rotation" \in DOMAIN updates.transform
                                     THEN updates.transform.rotation
                                     ELSE root.transform.rotation,
                        scale    |-> IF "scale" \in DOMAIN updates.transform
                                     THEN updates.transform.scale
                                     ELSE root.transform.scale ]
                 ELSE root.transform
         IN [val |-> [ ref       |-> r,
                       id        |-> root.id,
                       name      |-> IF "name" \in DOMAIN updates
                                     THEN updates.name ELSE root.name,
                       transform |-> nextTransform,
                       children  |-> root.children,
                       render    |-> IF "render" \in DOMAIN updates
                                        /\ Truthy(updates.render)
                                     THEN Merge(IF Truthy(root.render)
                                                THEN root.render
                                                ELSE [kind |-> "object"],
                                                updates.render)
                                     ELSE IF root.render = RenderAbsent
                                          THEN RenderUndefined
                                          ELSE root.render ],
             next |-> r + 1]
    ELSE LET RECURSIVE map(_, _)
             map(i, acc) ==
                 IF i > Len(root.children) THEN acc
                 ELSE LET child == root.children[i]
                          updated == updateNode(child, targetId, updates, acc.next)
                      IN map(i + 1,
                             [vals     |-> Append(acc.vals, Coalesce(updated.val, child)),
                              modified |-> acc.modified \/ DiffRef(updated.val, child),
                              next     |-> updated.next])
             m == map(1, [vals |-> <<>>, modified |-> FALSE, next |-> r])
         IN IF ~m.modified THEN [val |-> root, next |-> m.next]
            ELSE [val |-> WithChildren(root, m.vals, m.next), next |-> m.next + 1]

RECURSIVE cloneNode(_, _, _)
\* cloneNode copying the id of the source instead of generating one
cloneNode_keepId(node, r, k) ==
    LET c == [ref |-> r, id |-> node.id, name |-> node.name,
              transform |-> node.transform, children |-> node.children,
              render |-> node.render]
    IN [val |-> c, next |-> r + 1, nextK |-> k + 1]

\* cloneNode handing back the source object itself
cloneNode_aliasesSource(node, r, k) == [val |-> node, next |-> r, nextK |-> k]

\* cloneNode copying the node alone and keeping the source's children
cloneNode_sharesChildren(node, r, k) ==
    [val   |-> [ ref       |-> r,
                 id        |-> uuidv4(k),
                 name      |-> node.name,
                 transform |-> node.transform,
                 children  |-> node.children,
                 render    |-> IF Truthy(node.render)
                               THEN RenderOf(node.render.primitive)
                               ELSE RenderAbsent ],
     next  |-> r + 1,
     nextK |-> k + 1]

\* r: next free address, k: index of the next uuidv4() call
\* returns [val, next, nextK]
cloneNode(node, r, k) ==
    LET RECURSIVE map(_, _)
        map(i, acc) ==
            IF i > Len(node.children) THEN acc
            ELSE LET c == cloneNode(node.children[i], acc.next, acc.nextK)
                 IN map(i + 1, [vals  |-> Append(acc.vals, c.val),
                                next  |-> c.next,
                                nextK |-> c.nextK])
        m == map(1, [vals |-> <<>>, next |-> r, nextK |-> k + 1])
    IN [val   |-> [ ref       |-> m.next,
                    id        |-> uuidv4(k),
                    name      |-> node.name,
                    transform |-> node.transform,
                    children  |-> m.vals,
                    render    |-> IF Truthy(node.render)
                                  THEN RenderOf(node.render.primitive)
                                  ELSE RenderAbsent ],
        next  |-> m.next + 1,
        nextK |-> m.nextK]

\* reparent without the check that parentId is inside the removed subtree
reparent_noCycleCheck(root, childId, parentId, r) ==
    IF root = Null THEN [val |-> Null, next |-> r]
    ELSE IF childId = parentId THEN [val |-> root, next |-> r]
    ELSE LET rem == removeNode(root, childId, r)
         IN IF rem.newRoot = Null \/ rem.removed = Null
            THEN [val |-> root, next |-> rem.next]
            ELSE addChild(rem.newRoot, parentId, rem.removed, rem.next)

\* reparent without the check that the removal succeeded
reparent_noRemoveCheck(root, childId, parentId, r) ==
    IF root = Null THEN [val |-> Null, next |-> r]
    ELSE IF childId = parentId THEN [val |-> root, next |-> r]
    ELSE LET rem == removeNode(root, childId, r)
         IN IF findNode(rem.removed, parentId) # Null
            THEN [val |-> root, next |-> rem.next]
            ELSE addChild(rem.newRoot, parentId, rem.removed, rem.next)

\* returns [val, next]
reparent(root, childId, parentId, r) ==
    IF root = Null THEN [val |-> Null, next |-> r]
    ELSE IF childId = parentId THEN [val |-> root, next |-> r]
    ELSE LET rem == removeNode(root, childId, r)
         IN IF rem.newRoot = Null \/ rem.removed = Null
            THEN [val |-> root, next |-> rem.next]
            ELSE IF findNode(rem.removed, parentId) # Null
            THEN [val |-> root, next |-> rem.next]
            ELSE addChild(rem.newRoot, parentId, rem.removed, rem.next)

\* children.findIndex(child => child.id === childId), 0-based, -1 if none
findIndex(children, childId) ==
    IF \E i \in 1..Len(children) : children[i].id = childId
    THEN (CHOOSE i \in 1..Len(children) :
              /\ children[i].id = childId
              /\ \A j \in 1..(i - 1) : children[j].id # childId) - 1
    ELSE -1

\* the array after arr.splice(index, 1), index 0-based and in range
SpliceOut(arr, index) ==
    [i \in 1..(Len(arr) - 1) |-> IF i <= index THEN arr[i] ELSE arr[i + 1]]

\* the array after arr.splice(index, 0, item), 0 <= index <= arr.length
SpliceIn(arr, index, item) ==
    [i \in 1..(Len(arr) + 1) |->
        IF i <= index THEN arr[i] ELSE IF i = index + 1 THEN item ELSE arr[i - 1]]

RECURSIVE reorderAmongSiblings(_, _, _, _, _)
\* reorderAmongSiblings without the test childIndex === targetIndex
reorderAmongSiblings_noSameIndexCheck(root, childId, parentId, targetIndex, r) ==
    IF root = Null THEN [val |-> Null, next |-> r]
    ELSE IF root.id = childId THEN [val |-> root, next |-> r]
    ELSE IF root.id = parentId
    THEN LET childIndex == findIndex(root.children, childId)
         IN IF childIndex = -1
            THEN [val |-> root, next |-> r]
            ELSE LET childToMove == root.children[childIndex + 1]
                     newChildren == SpliceOut(root.children, childIndex)
                     clampedIndex == clamp(targetIndex, 0, Len(newChildren))
                 IN [val  |-> WithChildren(root,
                                  SpliceIn(newChildren, clampedIndex, childToMove), r),
                     next |-> r + 1]
    ELSE LET RECURSIVE map(_, _)
             map(i, acc) ==
                 IF i > Len(root.children) THEN acc
                 ELSE LET child == root.children[i]
                          updated == reorderAmongSiblings(child, childId, parentId,
                                                          targetIndex, acc.next)
                      IN map(i + 1,
                             [vals     |-> Append(acc.vals, Coalesce(updated.val, child)),
                              modified |-> acc.modified \/ DiffRef(updated.val, child),
                              next     |-> updated.next])
             m == map(1, [vals |-> <<>>, modified |-> FALSE, next |-> r])
         IN IF ~m.modified THEN [val |-> root, next |-> m.next]
            ELSE [val |-> WithChildren(root, m.vals, m.next), next |-> m.next + 1]

\* returns [val, next]
reorderAmongSiblings(root, childId, parentId, targetIndex, r) ==
    IF root = Null THEN [val |-> Null, next |-> r]
    ELSE IF root.id = childId THEN [val |-> root, next |-> r]
    ELSE IF root.id = parentId
    THEN LET childIndex == findIndex(root.children, childId)
         IN IF childIndex = -1 \/ childIndex = targetIndex
            THEN [val |-> root, next |-> r]
            ELSE LET childToMove == root.children[childIndex + 1]
                     newChildren == SpliceOut(root.children, childIndex)
                     clampedIndex == clamp(targetIndex, 0, Len(newChildren))
                 IN [val  |-> WithChildren(root,
                                  SpliceIn(newChildren, clampedIndex, childToMove), r),
                     next |-> r + 1]
    ELSE LET RECURSIVE map(_, _)
             map(i, acc) ==
                 IF i > Len(root.children) THEN acc
                 ELSE LET child == root.children[i]
                          updated == reorderAmongSiblings(child, childId, parentId,
                                                          targetIndex, acc.next)
                      IN map(i + 1,
                             [vals     |-> Append(acc.vals, Coalesce(updated.val, child)),
                              modified |-> acc.modified \/ DiffRef(updated.val, child),
                              next     |-> updated.next])
             m == map(1, [vals |-> <<>>, modified |-> FALSE, next |-> r])
         IN IF ~m.modified THEN [val |-> root, next |-> m.next]
            ELSE [val |-> WithChildren(root, m.vals, m.next), next |-> m.next + 1]

(***************************************************************************)
(* Naming on paste (App.tsx, onPasteHandler).  A name is a sequence of     *)
(* one-character strings.                                                  *)
(***************************************************************************)
Digits == <<"0", "1", "2", "3", "4", "5", "6", "7", "8", "9">>

\* \d
IsDigit(c) == \E i \in 1..10 : Digits[i] = c

\* \s (the whitespace the model's names can hold)
IsSpace(c) == c = " "

DigitValue(c) == (CHOOSE i \in 1..10 : Digits[i] = c) - 1

RECURSIVE IntValue(_)
\* the integer written by at most eight digits
IntValue(digits) ==
    IF Len(digits) = 0 THEN 0
    ELSE 10 * IntValue(SubSeq(digits, 1, Len(digits) - 1))
         + DigitValue(digits[Len(digits)])

RECURSIVE IntDigits(_)
\* the decimal digits of a non-negative integer
IntDigits(n) ==
    IF n < 10 THEN <<Digits[n + 1]>>
    ELSE IntDigits(n \div 10) \o <<Digits[(n % 10) + 1]>>

(***************************************************************************)
(* JavaScript numbers.  parseInt returns, and maxNum + 1 computes, an IEEE  *)
(* double: integers up to 2^53 are exact, and between 2^53 and 2^54 only    *)
(* the even integers exist, an odd result being rounded to the neighbour    *)
(* whose half is even.  A number is a record [hi, lo] of value              *)
(* hi * 10^8 + lo with lo < 10^8; the names of the model write numbers of   *)
(* at most sixteen digits, so every value stays below 2^54.                 *)
(***************************************************************************)
NumberOf(hi, lo) == [hi |-> hi, lo |-> lo]

\* a < b
NumberLess(a, b) == a.hi < b.hi \/ (a.hi = b.hi /\ a.lo < b.lo)

\* the integer after a, and the integer before a > 0
Succ(a) == IF a.lo = 10^8 - 1 THEN NumberOf(a.hi + 1, 0) ELSE NumberOf(a.hi, a.lo + 1)

Pred(a) == IF a.lo = 0 THEN NumberOf(a.hi - 1, 10^8 - 1) ELSE NumberOf(a.hi, a.lo - 1)

\* 2^53 = 9007199254740992
TwoTo53 == NumberOf(90071992, 54740992)

\* the double nearest to the integer x < 2^54, ties to the even significand
RoundToDouble(x) ==
    IF ~NumberLess(TwoTo53, x) THEN x
    ELSE IF x.lo % 2 = 0 THEN x
    ELSE IF Pred(x).lo % 4 = 0 THEN Pred(x) ELSE Succ(x)

\* the integer a sequence of at most sixteen digits writes
DecimalValue(digits) ==
    IF Len(digits) <= 8 THEN NumberOf(0, IntValue(digits))
    ELSE NumberOf(IntValue(SubSeq(digits, 1, Len(digits) - 8)),
                  IntValue(SubSeq(digits, Len(digits) - 7, Len(digits))))

\* parseInt(digits, 10) on a non-empty sequence of digits
parseInt(digits) == RoundToDouble(DecimalValue(digits))

\* n + 1 on numbers
PlusOne(n) == RoundToDouble(Succ(n))

\* `${n}` for a non-negative integer below 10^21
numberToString(n) ==
    IF n.hi = 0 THEN IntDigits(n.lo)
    ELSE LET low == IntDigits(n.lo)
         IN IntDigits(n.hi) \o [i \in 1..(8 - Len(low)) |-> "0"] \o low

\* the position of the "(" of a trailing "(digits)" in name, 0 if there is none
SuffixParen(name) ==
    LET n == Len(name)
        opens == { i \in 1..(n - 2) :
                     /\ name[i] = "("
                     /\ name[n] = ")"
                     /\ \A j \in (i + 1)..(n - 1) : IsDigit(name[j]) }
    IN IF opens = {} THEN 0 ELSE CHOOSE i \in opens : TRUE

\* name.replace(/\s+\(\d+\)$/, ""): the leftmost match starts at the first
\* character of the whitespace run before the "("
stripSuffix(name) ==
    LET p == SuffixParen(name)
    IN IF p <= 1 \/ ~IsSpace(name[p - 1]) THEN name
       ELSE LET start == CHOOSE i \in 1..(p - 1) :
                            /\ \A j \in i..(p - 1) : IsSpace(name[j])
                            /\ (i = 1 \/ ~IsSpace(name[i - 1]))
            IN SubSeq(name, 1, start - 1)

\* name.match(/^(.+)\s+\((\d+)\)$/): Null, or [base: m[1], digits: m[2]];
\* the greedy (.+) leaves exactly one whitespace character to \s+
matchSuffix(name) ==
    LET p == SuffixParen(name)
    IN IF p <= 2 \/ ~IsSpace(name[p - 1]) THEN Null
       ELSE [base   |-> SubSeq(name, 1, p - 2),
             digits |-> SubSeq(name, p + 1, Len(name) - 1)]

RECURSIVE scanSiblings(_, _, _, _)
\* the loop over parentNode.children: [foundAny, maxNum] after children i..
scanSiblings(children, base, i, acc) ==
    IF i > Len(children) THEN acc
    ELSE LET sibling == children[i]
             m == matchSuffix(sibling.name)
         IN scanSiblings(children, base, i + 1,
                IF sibling.name = base
                THEN [foundAny |-> TRUE, maxNum |-> acc.maxNum]  \* Math.max(maxNum, 0)
                ELSE IF m # Null /\ m.base = base
                THEN [foundAny |-> TRUE,
                      maxNum   |-> IF NumberLess(acc.maxNum, parseInt(m.digits))
                                   THEN parseInt(m.digits) ELSE acc.maxNum]
                ELSE acc)

\* the name given to the clone of targetNode pasted under parentNode
pasteName(targetNode, parentNode) ==
    LET base == stripSuffix(targetNode.name)
        scan == IF parentNode # Null
                THEN scanSiblings(parentNode.children, base, 1,
                                  [foundAny |-> FALSE, maxNum |-> NumberOf(0, 0)])
                ELSE [foundAny |-> FALSE, maxNum |-> NumberOf(0, 0)]
    IN IF scan.foundAny
       THEN base \o <<" ", "(">> \o numberToString(PlusOne(scan.maxNum)) \o <<")">>
       ELSE base

(***************************************************************************)
(* History manager (hooks/useUndoRedo.ts).  A history is a record          *)
(* [past, present, future].                                                *)
(***************************************************************************)
MAX_HISTORY == 100

\* apply dropping the oldest entry one apply late
apply_capsLate(h, next) ==
    IF ~DiffRef(next, h.present) THEN h
    ELSE LET cappedPast == IF Len(h.past) > MAX_HISTORY THEN Tail(h.past)
                           ELSE h.past
         IN [past    |-> Append(cappedPast, h.present),
             present |-> next,
             future  |-> <<>>]

\* apply without the no-op guard
apply_noGuard(h, next) ==
    LET cappedPast == IF Len(h.past) >= MAX_HISTORY THEN Tail(h.past) ELSE h.past
    IN [past    |-> Append(cappedPast, h.present),
        present |-> next,
        future  |-> <<>>]

\* the updater of apply, given next = fn(h.present)
apply(h, next) ==
    IF ~DiffRef(next, h.present) THEN h
    ELSE LET cappedPast == IF Len(h.past) >= MAX_HISTORY THEN Tail(h.past)
                           ELSE h.past
         IN [past    |-> Append(cappedPast, h.present),
             present |-> next,
             future  |-> <<>>]

\* undo forgetting the states undone before
undo_dropsFuture(h) ==
    IF Len(h.past) = 0 THEN h
    ELSE [past    |-> SubSeq(h.past, 1, Len(h.past) - 1),
          present |-> h.past[Len(h.past)],
          future  |-> <<h.present>>]

\* undo putting the present under the states undone before
undo_pushesFront(h) ==
    IF Len(h.past) = 0 THEN h
    ELSE [past    |-> SubSeq(h.past, 1, Len(h.past) - 1),
          present |-> h.past[Len(h.past)],
          future  |-> <<h.present>> \o h.future]

undo(h) ==
    IF Len(h.past) = 0 THEN h
    ELSE [past    |-> SubSeq(h.past, 1, Len(h.past) - 1),
          present |-> h.past[Len(h.past)],
          future  |-> Append(h.future, h.present)]

\* redo taking the state undone first
redo_takesOldest(h) ==
    IF Len(h.future) = 0 THEN h
    ELSE [past    |-> Append(h.past, h.present),
          present |-> h.future[1],
          future  |-> Tail(h.future)]

\* redo putting the old present in front of past
redo_pushesFront(h) ==
    IF Len(h.future) = 0 THEN h
    ELSE [past    |-> <<h.present>> \o h.past,
          present |-> h.future[Len(h.future)],
          future  |-> SubSeq(h.future, 1, Len(h.future) - 1)]

\* redo leaving the redone state in future
redo_keepsFuture(h) ==
    IF Len(h.future) = 0 THEN h
    ELSE [past    |-> Append(h.past, h.present),
          present |-> h.future[Len(h.future)],
          future  |-> h.future]

redo(h) ==
    IF Len(h.future) = 0 THEN h
    ELSE [past    |-> Append(h.past, h.present),
          present |-> h.future[Len(h.future)],
          future  |-> SubSeq(h.future, 1, Len(h.future) - 1)]

\* replace keeping an entry to undo to
replace_keepsUndo(next) == [past |-> <<next>>, present |-> next, future |-> <<>>]

replace(next) == [past |-> <<>>, present |-> next, future |-> <<>>]

canUndo(h) == Len(h.past) > 0

canRedo(h) == Len(h.future) > 0

(***************************************************************************)
(* State.                                                                  *)
(***************************************************************************)
VARIABLES
    history,      \* useUndoRedo: [past, present, future]
    selectedId,   \* App: useState selectedId (NullId for null)
    clipboardId,  \* App: clipboardIdRef.current (NullId for null)
    root,         \* treeTest.ts: the script's `root`
    call,         \* treeTest.ts: the last tree-algebra call and its result
    nextRef,      \* the next free object address
    nextUuid,     \* the index of the next uuidv4() call
    autosave      \* App: the auto-save effect, [deps, timer, stored]

vars == <<history, selectedId, clipboardId, root, call, nextRef, nextUuid, autosave>>

\* "New Node", the default name of onAddHandler
NewNodeName == <<"N", "e", "w", " ", "N", "o", "d", "e">>

\* "Sample Scene", the name of App's initial root
SampleSceneName == <<"S", "a", "m", "p", "l", "e", " ", "S", "c", "e", "n", "e">>

\* the ids a caller may hold: the root's id and every id generated so far
\* (ids of nodes since deleted or undone included)
AllIds == {"root"} \cup { uuidv4(k) : k \in 1..(nextUuid - 1) }

\* the ids the test script passes: those, and an id that was never generated
TestIds == AllIds \cup {"ghost"}

\* the names, transforms, render markers, patches and indices the callers pass
AddNames == { NewNodeName }

AddTransforms == { [x \in {} |-> <<>>] }

AddRenders == { RenderAbsent }

Patches ==
    { [name |-> <<"A">>],
      [transform |-> [position |-> <<5, 5, 5>>]] }

TargetIndices == (-1)..(MaxUuid + 1)

\* no call made yet
NoCall == [op |-> "none"]

\* the auto-save effect before the component has mounted: deps is the root
\* the effect last ran for, timer the root captured by the pending setTimeout
\* callback (Null: none pending), stored the document in local storage
\* (Null: none)
NoAutosave == [mounted |-> FALSE, deps |-> Null, timer |-> Null, stored |-> Null]

Init ==
    /\ history = [past    |-> <<>>,
                  present |-> createNode(SampleSceneName, [x \in {} |-> <<>>],
                                         RenderAbsent, TRUE, 1, 0),
                  future  |-> <<>>]
    /\ selectedId = NullId
    /\ clipboardId = NullId
    /\ root = Null
    /\ call = NoCall
    /\ nextRef = 2
    /\ nextUuid = 1
    /\ autosave = NoAutosave

(***************************************************************************)
(* App handlers (App.tsx).  Each handler runs to completion.               *)
(***************************************************************************)
OnSelectHandler ==
    \E id \in AllIds \cup {NullId} :
        /\ selectedId' = id
        /\ UNCHANGED <<history, clipboardId, root, call, autosave, nextRef, nextUuid>>

OnAddHandler ==
    \E parentId \in AllIds \cup {NullId}, name \in AddNames,
       transform \in AddTransforms, render \in AddRenders :
        /\ nextRef <= MaxRef
        /\ nextUuid <= MaxUuid
        /\ LET newNode == createNode(name, transform, render, FALSE, nextRef, nextUuid)
               res == addChild(history.present, parentId, newNode, nextRef + 1)
           IN IF parentId # NullId
              THEN /\ history' = apply(history, Coalesce(res.val, history.present))
                   /\ selectedId' = newNode.id
                   /\ nextRef' = res.next
              ELSE /\ UNCHANGED <<history, selectedId>>
                   /\ nextRef' = nextRef + 1
        /\ nextUuid' = nextUuid + 1
        /\ UNCHANGED <<clipboardId, root, call, autosave>>

\* onDeleteHandler without the `?? prev` fallback
OnDeleteHandler_noFallback ==
    \E targetId \in AllIds :
        /\ nextRef <= MaxRef
        /\ LET res == removeNode(history.present, targetId, nextRef)
           IN /\ history' = apply(history, res.newRoot)
              /\ nextRef' = res.next
        /\ selectedId' = IF selectedId = targetId THEN NullId ELSE selectedId
        /\ UNCHANGED <<clipboardId, root, call, autosave, nextUuid>>

OnDeleteHandler ==
    \E targetId \in AllIds :
        /\ nextRef <= MaxRef
        /\ LET res == removeNode(history.present, targetId, nextRef)
           IN /\ history' = apply(history, Coalesce(res.newRoot, history.present))
              /\ nextRef' = res.next
        /\ selectedId' = IF selectedId = targetId THEN NullId ELSE selectedId
        /\ UNCHANGED <<clipboardId, root, call, autosave, nextUuid>>

OnUpdateHandler ==
    \E id \in AllIds, updates \in Patches :
        /\ nextRef <= MaxRef
        /\ LET res == updateNode(history.present, id, updates, nextRef)
           IN /\ history' = apply(history, Coalesce(res.val, history.present))
              /\ nextRef' = res.next
        /\ UNCHANGED <<selectedId, clipboardId, root, call, autosave, nextUuid>>

\* a + b and a - b on vectors of three numbers
VecAdd(a, b) == [i \in 1..3 |-> a[i] + b[i]]

VecSub(a, b) == [i \in 1..3 |-> a[i] - b[i]]

RECURSIVE worldPosition(_, _, _)
\* the world position of the object the viewport has built for node `id`:
\* [found, position], `origin` the world position of t's parent.  The
\* trees of this model carry no rotation and unit scales, so that a world
\* matrix is the translation by the sum of the positions down the path.
worldPosition(t, id, origin) ==
    LET here == VecAdd(origin, t.transform.position)
        RECURSIVE loop(_)
        loop(i) == IF i > Len(t.children) THEN [found |-> FALSE]
                   ELSE LET w == worldPosition(t.children[i], id, here)
                        IN IF w.found THEN w ELSE loop(i + 1)
    IN IF t.id = id THEN [found |-> TRUE, position |-> here] ELSE loop(1)

\* handleRequestReparent reporting a transform also when parentObj lies
\* inside childObj
handleRequestReparent_survivesCycle(present, childId, newParentId) ==
    IF present = Null THEN Null
    ELSE LET childObj == worldPosition(present, childId, <<0, 0, 0>>)
             parentObj == worldPosition(present, newParentId, <<0, 0, 0>>)
         IN IF ~childObj.found \/ ~parentObj.found THEN Null
            ELSE [transform |->
                     [position |-> VecSub(childObj.position, parentObj.position),
                      rotation |-> <<0, 0, 0>>,
                      scale    |-> <<1, 1, 1>>]]

\* handleRequestReparent of the viewport, whose content is built from the
\* present root: the patch it hands to onUpdate (the child's local transform
\* after parentObj.attach(childObj), which keeps the child where it is in
\* the world), or Null when it makes no call: it returns early when an
\* object is missing, and when parentObj lies inside childObj the attach
\* closes a cycle of objects on which updateMatrixWorld recurses until the
\* stack overflows, the error ending the listener before it calls onUpdate
handleRequestReparent(present, childId, newParentId) ==
    IF present = Null THEN Null
    ELSE LET childObj == worldPosition(present, childId, <<0, 0, 0>>)
             parentObj == worldPosition(present, newParentId, <<0, 0, 0>>)
         IN IF ~childObj.found \/ ~parentObj.found THEN Null
            ELSE IF findNode(findNode(present, childId), newParentId) # Null THEN Null
            ELSE [transform |->
                     [position |-> VecSub(childObj.position, parentObj.position),
                      rotation |-> <<0, 0, 0>>,
                      scale    |-> <<1, 1, 1>>]]

\* the history onReparentHandler leaves: the event it dispatches is handled
\* at once by the viewport, which calls onUpdate, then the structural
\* reparent is applied; [history, next]
onReparent(h, childId, newParentId, r) ==
    IF childId = newParentId THEN [history |-> h, next |-> r]
    ELSE LET updates == handleRequestReparent(h.present, childId, newParentId)
             upd == IF updates = Null THEN [val |-> h.present, next |-> r]
                    ELSE updateNode(h.present, childId, updates, r)
             h1 == apply(h, Coalesce(upd.val, h.present))
             res == reparent(h1.present, childId, newParentId, upd.next)
         IN [history |-> apply(h1, Coalesce(res.val, h1.present)),
             next    |-> res.next]

OnReparentHandler ==
    \E childId \in AllIds, newParentId \in AllIds :
        /\ nextRef <= MaxRef
        /\ LET res == onReparent(history, childId, newParentId, nextRef)
           IN /\ history' = res.history
              /\ nextRef' = res.next
        /\ selectedId' = IF childId = newParentId THEN selectedId ELSE childId
        /\ UNCHANGED <<clipboardId, root, call, autosave, nextUuid>>

OnReorderHandler ==
    \E childId \in AllIds, parentId \in AllIds, targetIndex \in TargetIndices :
        /\ nextRef <= MaxRef
        /\ LET res == reorderAmongSiblings(history.present, childId, parentId,
                                           targetIndex, nextRef)
           IN /\ history' = apply(history, Coalesce(res.val, history.present))
              /\ nextRef' = res.next
        /\ selectedId' = childId
        /\ UNCHANGED <<clipboardId, root, call, autosave, nextUuid>>

OnCopyHandler ==
    /\ ~(history.present = Null \/ selectedId = NullId \/ selectedId = "root")
    /\ clipboardId' = selectedId
    /\ UNCHANGED <<history, selectedId, root, call, autosave, nextRef, nextUuid>>

\* the updater leaving the clone where addChild puts it
pasteUpdater_appends(prev, clipboard, selected, r, k) ==
    LET targetNode == findNode(prev, clipboard)
        info == findParentAndIndex(prev, selected)
        unchanged == [val |-> prev, clipboard |-> clipboard, newId |-> NullId,
                      next |-> r, nextK |-> k]
    IN IF targetNode = Null THEN [unchanged EXCEPT !.clipboard = NullId]
       ELSE IF info = Null THEN unchanged
       ELSE IF info.parentId = NullId THEN unchanged
       ELSE LET cloned == cloneNode(targetNode, r, k)
                parentNode == findNode(prev, info.parentId)
                clone == [cloned.val EXCEPT !.name = pasteName(targetNode, parentNode)]
                added == addChild(prev, info.parentId, clone, cloned.next)
            IN [val       |-> Coalesce(added.val, prev),
                clipboard |-> clipboard,
                newId     |-> clone.id,
                next      |-> added.next,
                nextK     |-> cloned.nextK]

\* the updater passed to apply by onPasteHandler, run on prev:
\* [val: the returned tree, clipboard: clipboardIdRef.current afterwards,
\*  newId: the id captured for selection (NullId if none), next, nextK]
pasteUpdater(prev, clipboard, selected, r, k) ==
    LET targetNode == findNode(prev, clipboard)
        info == findParentAndIndex(prev, selected)
        unchanged == [val |-> prev, clipboard |-> clipboard, newId |-> NullId,
                      next |-> r, nextK |-> k]
    IN IF targetNode = Null THEN [unchanged EXCEPT !.clipboard = NullId]
       ELSE IF info = Null THEN unchanged
       ELSE IF info.parentId = NullId THEN unchanged
       ELSE LET cloned == cloneNode(targetNode, r, k)
                parentNode == findNode(prev, info.parentId)
                clone == [cloned.val EXCEPT !.name = pasteName(targetNode, parentNode)]
                added == addChild(prev, info.parentId, clone, cloned.next)
                afterAdd == Coalesce(added.val, prev)
                reordered == reorderAmongSiblings(afterAdd, clone.id, info.parentId,
                                                  info.indexInParent + 1, added.next)
            IN [val       |-> Coalesce(reordered.val, afterAdd),
                clipboard |-> clipboard,
                newId     |-> clone.id,
                next      |-> reordered.next,
                nextK     |-> cloned.nextK]

OnPasteHandler ==
    /\ ~(history.present = Null \/ clipboardId = NullId
         \/ selectedId = NullId \/ selectedId = "root")
    /\ nextRef <= MaxRef
    /\ LET res == pasteUpdater(history.present, clipboardId, selectedId,
                               nextRef, nextUuid)
       IN /\ res.nextK - 1 <= MaxUuid
          /\ history' = apply(history, res.val)
          /\ clipboardId' = res.clipboard
          /\ selectedId' = IF res.newId # NullId THEN res.newId ELSE selectedId
          /\ nextRef' = res.next
          /\ nextUuid' = res.nextK
    /\ UNCHANGED <<root, call, autosave>>

Undo ==
    /\ history' = undo(history)
    /\ UNCHANGED <<selectedId, clipboardId, root, call, autosave, nextRef, nextUuid>>

Redo ==
    /\ history' = redo(history)
    /\ UNCHANGED <<selectedId, clipboardId, root, call, autosave, nextRef, nextUuid>>

Next ==
    \/ OnSelectHandler
    \/ OnAddHandler
    \/ OnDeleteHandler
    \/ OnUpdateHandler
    \/ OnReparentHandler
    \/ OnReorderHandler
    \/ OnCopyHandler
    \/ OnPasteHandler
    \/ Undo
    \/ Redo

Spec == Init /\ [][Next]_vars

(***************************************************************************)
(* The tree algebra driven directly, as scene/treeTest.ts drives it: a     *)
(* script variable `root` that each call's result is assigned to.  The     *)
(* script starts from a tree it has built with createNode and addChild     *)
(* (Steps 1-3) and makes one call; `call` records the call, its arguments  *)
(* and its result.                                                         *)
(***************************************************************************)
RECURSIVE BuildTree(_, _, _, _)
\* the node numbered i (0: the root) of the tree with k nodes below the root
\* in which node j hangs under node parent[j] < j, children in creation
\* order; node j carries a box marker iff j \in boxed and sits at position
\* [j, 0, 0].  Objects are numbered i + 1.
BuildTree(i, k, parent, boxed) ==
    LET kids == { j \in 1..k : parent[j] = i }
        RECURSIVE seqOf(_)
        seqOf(S) == IF S = {} THEN <<>>
                    ELSE LET j == CHOOSE x \in S : \A y \in S : x <= y
                         IN <<BuildTree(j, k, parent, boxed)>> \o seqOf(S \ {j})
        made == createNode(IF i = 0 THEN <<"r", "o", "o", "t">> ELSE NewNodeName,
                           IF i = 0 THEN [x \in {} |-> <<>>]
                           ELSE [position |-> <<i, 0, 0>>, scale |-> <<1, 1, 1>>,
                                 rotation |-> <<0, 0, 0>>],
                           IF i \in boxed THEN RenderOf("box") ELSE RenderAbsent,
                           i = 0, i + 1, i)
    IN [made EXCEPT !.children = seqOf(kids)]

\* the tree the script has built (Steps 1-3), before the call under test
InitTree ==
    /\ \E n \in 0..MaxUuid :
         \E parent \in [1..n -> 0..(MaxUuid - 1)], boxed \in SUBSET (1..n) :
            /\ \A j \in 1..n : parent[j] < j
            /\ root = BuildTree(0, n, parent, boxed)
            /\ nextRef = n + 2
            /\ nextUuid = n + 1
    /\ call = NoCall
    /\ history = [past |-> <<>>, present |-> Null, future |-> <<>>]
    /\ selectedId = NullId
    /\ clipboardId = NullId
    /\ autosave = NoAutosave

\* the node handed to addChild: a fresh node, alone or already holding a
\* child of its own; [val, next, nextK]
NewSubtree(render, withChild, r, k) ==
    LET node == createNode(NewNodeName, [x \in {} |-> <<>>], render, FALSE, r, k)
        inner == createNode(<<"A">>, [position |-> <<7, 8, 9>>], RenderAbsent, FALSE,
                            r + 1, k + 1)
    IN IF withChild
       THEN [val   |-> addChild(node, node.id, inner, r + 2).val,
             next  |-> r + 3,
             nextK |-> k + 2]
       ELSE [val |-> node, next |-> r + 1, nextK |-> k + 1]

TestAddChild ==
    \E parentId \in TestIds, render \in {RenderAbsent, RenderOf("box")},
       withChild \in BOOLEAN :
        /\ call = NoCall
        /\ LET made == NewSubtree(render, withChild, nextRef, nextUuid)
               res == addChild(root, parentId, made.val, made.next)
           IN /\ call' = [op |-> "addChild", root |-> root, parentId |-> parentId,
                          node |-> made.val, r |-> made.next, res |-> res]
              /\ root' = res.val
              /\ nextRef' = res.next
              /\ nextUuid' = made.nextK
        /\ UNCHANGED <<history, selectedId, clipboardId, autosave>>

\* the patches the script passes: those of the editor, a patch of name and
\* position together (Step 4), patches of the other vectors and of the render
\* marker, patches that give nothing, and a position holding one component
TestPatches ==
    Patches \cup
    { [name |-> <<"A">>, transform |-> [position |-> <<5, 5, 5>>]],
      [transform |-> [rotation |-> <<9, 9, 9>>, scale |-> <<2, 2, 2>>]],
      [render |-> RenderOf("sphere")],
      [x \in {} |-> <<>>],
      [transform |-> [x \in {} |-> <<>>]],
      [transform |-> [position |-> <<5>>]] }

TestUpdateNode ==
    \E targetId \in TestIds, updates \in TestPatches :
        /\ call = NoCall
        /\ LET res == updateNode(root, targetId, updates, nextRef)
           IN /\ call' = [op |-> "updateNode", root |-> root, targetId |-> targetId,
                          updates |-> updates, r |-> nextRef, res |-> res]
              /\ root' = res.val
              /\ nextRef' = res.next
        /\ UNCHANGED <<history, selectedId, clipboardId, autosave, nextUuid>>

TestRemoveNode ==
    \E targetId \in TestIds :
        /\ call = NoCall
        /\ LET res == removeNode(root, targetId, nextRef)
           IN /\ call' = [op |-> "removeNode", root |-> root, targetId |-> targetId,
                          r |-> nextRef, res |-> res]
              /\ root' = res.newRoot
              /\ nextRef' = res.next
        /\ UNCHANGED <<history, selectedId, clipboardId, autosave, nextUuid>>

TestReparent ==
    \E childId \in TestIds, parentId \in TestIds :
        /\ call = NoCall
        /\ LET res == reparent(root, childId, parentId, nextRef)
           IN /\ call' = [op |-> "reparent", root |-> root, childId |-> childId,
                          parentId |-> parentId, r |-> nextRef, res |-> res]
              /\ root' = res.val
              /\ nextRef' = res.next
        /\ UNCHANGED <<history, selectedId, clipboardId, autosave, nextUuid>>

TestReorder ==
    \E childId \in TestIds, parentId \in TestIds, targetIndex \in TargetIndices :
        /\ call = NoCall
        /\ LET res == reorderAmongSiblings(root, childId, parentId, targetIndex,
                                           nextRef)
           IN /\ call' = [op |-> "reorderAmongSiblings", root |-> root,
                          childId |-> childId, parentId |-> parentId,
                          targetIndex |-> targetIndex, r |-> nextRef, res |-> res]
              /\ root' = res.val
              /\ nextRef' = res.next
        /\ UNCHANGED <<history, selectedId, clipboardId, autosave, nextUuid>>

\* the lookups read a tree and allocate nothing; the script's root may be
\* null by the time it looks something up
TestFindNode ==
    \E T \in {root, Null}, targetId \in TestIds :
        /\ call = NoCall
        /\ call' = [op |-> "findNode", root |-> T, targetId |-> targetId,
                    r |-> nextRef, res |-> findNode(T, targetId)]
        /\ UNCHANGED <<history, selectedId, clipboardId, autosave, root, nextRef, nextUuid>>

TestFindParentAndIndex ==
    \E T \in {root, Null}, targetId \in TestIds :
        /\ call = NoCall
        /\ call' = [op |-> "findParentAndIndex", root |-> T, targetId |-> targetId,
                    r |-> nextRef, res |-> findParentAndIndex(T, targetId)]
        /\ UNCHANGED <<history, selectedId, clipboardId, autosave, root, nextRef, nextUuid>>

\* cloneNode on a node of the tree, as onPasteHandler calls it
TestCloneNode ==
    \E id \in TestIds :
        /\ call = NoCall
        /\ findNode(root, id) # Null
        /\ LET node == findNode(root, id)
               res == cloneNode(node, nextRef, nextUuid)
           IN /\ call' = [op |-> "cloneNode", root |-> root, node |-> node,
                          r |-> nextRef, k |-> nextUuid, res |-> res]
              /\ nextRef' = res.next
              /\ nextUuid' = res.nextK
        /\ UNCHANGED <<history, selectedId, clipboardId, autosave, root>>

\* a patch of a name and a position together, as Step 4 of the script passes
UpdatedName == <<"u", "p", "d", "a", "t", "e", "d">>

UpdatedPatch == [name |-> UpdatedName, transform |-> [position |-> <<5, 5, 5>>]]

\* Steps 3 to 7 of the script in one piece: a fresh node is added under a
\* node of the tree, patched or not, and removed again
TestAddUpdateRemove ==
    /\ call = NoCall
    /\ \E parentId \in TestIds, render \in {RenderAbsent, RenderOf("box")},
          withChild \in BOOLEAN, doUpdate \in BOOLEAN :
         /\ findNode(root, parentId) # Null
         /\ LET made == NewSubtree(render, withChild, nextRef, nextUuid)
                added == addChild(root, parentId, made.val, made.next)
                upd == IF doUpdate
                       THEN updateNode(added.val, made.val.id, UpdatedPatch, added.next)
                       ELSE added
                res == removeNode(upd.val, made.val.id, upd.next)
            IN /\ call' = [op |-> "addUpdateRemove", root |-> root,
                           parentId |-> parentId, node |-> made.val,
                           doUpdate |-> doUpdate, added |-> upd.val, res |-> res]
               /\ root' = res.newRoot
               /\ nextRef' = res.next
               /\ nextUuid' = made.nextK
    /\ UNCHANGED <<history, selectedId, clipboardId, autosave>>

\* every operation called on the root null, with each id, node and index
TestOnNullRoot ==
    /\ call = NoCall
    /\ \E a \in TestIds :
         LET Found(v) == [val |-> v, next |-> nextRef]
             Called(fn, node, res) ==
                 call' = [op |-> "nullRoot", fn |-> fn, node |-> node,
                          r |-> nextRef, res |-> res]
         IN \/ Called("findNode", Null, Found(findNode(Null, a)))
            \/ Called("findParentAndIndex", Null, Found(findParentAndIndex(Null, a)))
            \/ \E node \in {root, Null} :
                  Called("addChild", node, addChild(Null, a, node, nextRef))
            \/ \E updates \in TestPatches :
                  Called("updateNode", Null, updateNode(Null, a, updates, nextRef))
            \/ \E b \in TestIds :
                  Called("reparent", Null, reparent(Null, a, b, nextRef))
            \/ \E b \in TestIds, targetIndex \in TargetIndices :
                  Called("reorderAmongSiblings", Null,
                         reorderAmongSiblings(Null, a, b, targetIndex, nextRef))
            \/ Called("removeNode", Null, removeNode(Null, a, nextRef))
    /\ UNCHANGED <<history, selectedId, clipboardId, autosave, root, nextRef, nextUuid>>

NextTree ==
    \/ TestOnNullRoot
    \/ TestAddUpdateRemove
    \/ TestAddChild
    \/ TestUpdateNode
    \/ TestRemoveNode
    \/ TestReparent
    \/ TestReorder
    \/ TestFindNode
    \/ TestFindParentAndIndex
    \/ TestCloneNode

SpecTree == InitTree /\ [][NextTree]_vars

(***************************************************************************)
(* Paste in a loaded scene.  On mount App replaces the history by the      *)
(* scene saved earlier; its nodes carry the names the user gave them in    *)
(* the inspector (trimmed, never empty) or that earlier pastes produced.   *)
(* A node is then selected and copied, a node is selected, and the user    *)
(* pastes.                                                                 *)
(***************************************************************************)
\* the names of the saved scene's nodes: "A", "A (1)", "A (2)", "A  (1)" with
\* two spaces, "B", and "A (9007199254740992)"
PasteNames ==
    { <<"A">>,
      <<"A", " ", "(", "1", ")">>,
      <<"A", " ", "(", "2", ")">>,
      <<"A", " ", " ", "(", "1", ")">>,
      <<"B">>,
      <<"A", " ", "(">> \o numberToString(TwoTo53) \o <<")">> }

RECURSIVE BuildScene(_, _, _, _)
\* the node numbered i (0: the root) of the saved scene with k nodes below
\* the root, node j hanging under node parent[j] < j and named names[j]
BuildScene(i, k, parent, names) ==
    LET kids == { j \in 1..k : parent[j] = i }
        RECURSIVE seqOf(_)
        seqOf(S) == IF S = {} THEN <<>>
                    ELSE LET j == CHOOSE x \in S : \A y \in S : x <= y
                         IN <<BuildScene(j, k, parent, names)>> \o seqOf(S \ {j})
        made == createNode(IF i = 0 THEN SampleSceneName ELSE names[i],
                           [x \in {} |-> <<>>], RenderAbsent, i = 0, i + 1, i)
    IN [made EXCEPT !.children = seqOf(kids)]

InitPaste ==
    /\ \E n \in 1..(MaxUuid - 1) :
         \E parent \in [1..n -> 0..(MaxUuid - 1)], names \in [1..n -> PasteNames] :
            /\ \A j \in 1..n : parent[j] < j
            /\ history = replace(BuildScene(0, n, parent, names))
            /\ nextRef = n + 2
            /\ nextUuid = n + 1
    /\ selectedId \in AllIds \ {"root"}
    /\ clipboardId \in AllIds \ {"root"}
    /\ root = Null
    /\ call = NoCall
    /\ autosave = NoAutosave

NextPaste == OnPasteHandler

SpecPaste == InitPaste /\ [][NextPaste]_vars

(***************************************************************************)
(* The history hook driven directly: apply with the updater of             *)
(* onUpdateHandler (a no-op when the id is absent), undo, redo and         *)
(* replace.  `call` records the last call, the history h it was made on,   *)
(* the root `next` it was given and the history it left, together with a   *)
(* log kept beside the hook: the roots made present one after the other on *)
(* the current branch, and the position `at` of the present one.           *)
(***************************************************************************)
\* the name of a scene loaded in place of the current one
LoadedSceneName == <<"B">>

InitHistory ==
    /\ history = [past    |-> <<>>,
                  present |-> createNode(SampleSceneName, [x \in {} |-> <<>>],
                                         RenderAbsent, TRUE, 1, 0),
                  future  |-> <<>>]
    /\ call = [op |-> "init", h |-> history, next |-> history.present,
               log |-> <<history.present>>, at |-> 1]
    /\ selectedId = NullId
    /\ clipboardId = NullId
    /\ root = Null
    /\ nextRef = 2
    /\ nextUuid = 1
    /\ autosave = NoAutosave

HookApply ==
    \E id \in {"root", "ghost"}, updates \in Patches :
        /\ nextRef <= MaxRef
        /\ LET res == updateNode(history.present, id, updates, nextRef)
               next == Coalesce(res.val, history.present)
               changed == DiffRef(next, history.present)
           IN /\ history' = apply(history, next)
              /\ nextRef' = res.next
              /\ call' = [op |-> "apply", h |-> history, next |-> next,
                          log |-> IF changed
                                  THEN Append(SubSeq(call.log, 1, call.at), next)
                                  ELSE call.log,
                          at  |-> IF changed THEN call.at + 1 ELSE call.at]
        /\ UNCHANGED <<selectedId, clipboardId, root, nextUuid, autosave>>

HookUndo ==
    /\ history' = undo(history)
    /\ call' = [op |-> "undo", h |-> history, next |-> history.present,
                log |-> call.log, at |-> Max(1, call.at - 1)]
    /\ UNCHANGED <<selectedId, clipboardId, root, nextRef, nextUuid, autosave>>

HookRedo ==
    /\ history' = redo(history)
    /\ call' = [op |-> "redo", h |-> history, next |-> history.present,
                log |-> call.log, at |-> Min(Len(call.log), call.at + 1)]
    /\ UNCHANGED <<selectedId, clipboardId, root, nextRef, nextUuid, autosave>>

HookReplace ==
    /\ nextRef <= MaxRef
    /\ LET saved == createNode(LoadedSceneName, [x \in {} |-> <<>>], RenderAbsent,
                               TRUE, nextRef, 0)
       IN /\ history' = replace(saved)
          /\ call' = [op |-> "replace", h |-> history, next |-> saved,
                      log |-> <<saved>>, at |-> 1]
    /\ nextRef' = nextRef + 1
    /\ UNCHANGED <<selectedId, clipboardId, root, nextUuid, autosave>>

NextHistory ==
    \/ HookApply
    \/ HookUndo
    \/ HookRedo
    \/ HookReplace

SpecHistory == InitHistory /\ [][NextHistory]_vars

(***************************************************************************)
(* Persistence (App.tsx effects, persist.ts).  React runs an effect after  *)
(* the render that changed its dependency has been committed, and a timer  *)
(* runs when its delay has passed: between a change of the present root    *)
(* and the effect's next run the pending timer may come due.               *)
(***************************************************************************)
RECURSIVE Serialize(_)
\* JSON.parse(JSON.stringify(root)) as a value: object addresses are gone
\* and a render key holding undefined is left out
Serialize(t) ==
    LET kids == [i \in 1..Len(t.children) |-> Serialize(t.children[i])]
    IN IF Truthy(t.render)
       THEN [id |-> t.id, name |-> t.name, transform |-> t.transform,
             children |-> kids, render |-> t.render]
       ELSE [id |-> t.id, name |-> t.name, transform |-> t.transform,
             children |-> kids]

\* the document saveLocal is given for a root
PersistedScene(t) == [id |-> "local", title |-> "Scene", root |-> Serialize(t)]

\* the root object JSON.parse builds from a stored document of one node
Revive(doc, r) ==
    [ ref       |-> r,
      id        |-> doc.root.id,
      name      |-> doc.root.name,
      transform |-> doc.root.transform,
      children  |-> <<>>,
      render    |-> IF "render" \in DOMAIN doc.root THEN doc.root.render
                    ELSE RenderAbsent ]

\* local storage is empty or holds a scene saved by an earlier session
InitAutosave ==
    /\ history = [past    |-> <<>>,
                  present |-> createNode(SampleSceneName, [x \in {} |-> <<>>],
                                         RenderAbsent, TRUE, 1, 0),
                  future  |-> <<>>]
    /\ selectedId = NullId
    /\ clipboardId = NullId
    /\ root = Null
    /\ call = NoCall
    /\ nextRef = 2
    /\ nextUuid = 1
    /\ \E saved \in {Null,
                      PersistedScene(createNode(LoadedSceneName, [x \in {} |-> <<>>],
                                                RenderAbsent, TRUE, 0, 0))} :
          autosave = [NoAutosave EXCEPT !.stored = saved]

\* the effects of the first render: the load effect replaces the history
\* when a document is stored, the auto-save effect schedules a save of the
\* root that was rendered
Mount ==
    /\ ~autosave.mounted
    /\ IF autosave.stored # Null /\ "root" \in DOMAIN autosave.stored
       THEN /\ history' = replace(Revive(autosave.stored, nextRef))
            /\ nextRef' = nextRef + 1
       ELSE UNCHANGED <<history, nextRef>>
    /\ autosave' = [autosave EXCEPT !.mounted = TRUE,
                                    !.deps = history.present,
                                    !.timer = history.present]
    /\ UNCHANGED <<selectedId, clipboardId, root, call, nextUuid>>

\* the auto-save effect after a render with a new root: the cleanup clears
\* the pending timer, the effect sets a timer capturing the new root
EffectRuns ==
    /\ autosave.mounted
    /\ DiffRef(history.present, autosave.deps)
    /\ autosave' = [autosave EXCEPT !.deps = history.present,
                                    !.timer = history.present]
    /\ UNCHANGED <<history, selectedId, clipboardId, root, call, nextRef, nextUuid>>

\* the pending timer comes due: saveLocal writes the captured root, or
\* setItem throws and the catch leaves the storage as it was
TimerFires ==
    /\ autosave.timer # Null
    /\ \E stored \in {PersistedScene(autosave.timer), autosave.stored} :
          autosave' = [autosave EXCEPT !.timer = Null, !.stored = stored]
    /\ UNCHANGED <<history, selectedId, clipboardId, root, call, nextRef, nextUuid>>

NextAutosave ==
    \/ Mount
    \/ autosave.mounted /\ OnAddHandler
    \/ autosave.mounted /\ OnUpdateHandler
    \/ autosave.mounted /\ Undo
    \/ autosave.mounted /\ Redo
    \/ EffectRuns
    \/ TimerFires

SpecAutosave ==
    InitAutosave /\ [][NextAutosave]_vars
        /\ WF_vars(EffectRuns) /\ WF_vars(TimerFires)

(***************************************************************************)
(* A long run of edits: from the initial state the root is moved again and *)
(* again, the j-th move putting it at [j, 0, 0] (an edit of an absent id    *)
(* changes nothing).  The number of moves made is nextRef - 2.             *)
(***************************************************************************)
EditsMade == nextRef - 2

LongRunEdit ==
    \E id \in {"root", "ghost"} :
        /\ EditsMade < MaxEdits
        /\ LET updates == [transform |-> [position |-> <<EditsMade + 1, 0, 0>>]]
               res == updateNode(history.present, id, updates, nextRef)
           IN /\ history' = apply(history, Coalesce(res.val, history.present))
              /\ nextRef' = res.next
        /\ UNCHANGED <<selectedId, clipboardId, root, call, nextUuid, autosave>>

NextLongRun == LongRunEdit

SpecLongRun == Init /\ [][NextLongRun]_vars

(***************************************************************************)
(* A long session: the same run of edits, with undo, redo and the loading   *)
(* of a scene once the history is nearly full (from MaxUndone edits before *)
(* MAX_HISTORY on), at most MaxUndone states being undone at a time.       *)
(* `call` records the last call.                                           *)
(***************************************************************************)
NearlyFull == EditsMade >= MAX_HISTORY - MaxUndone

SessionEdit ==
    \E id \in {"root", "ghost"} :
        /\ EditsMade < MaxEdits
        /\ LET updates == [transform |-> [position |-> <<EditsMade + 1, 0, 0>>]]
               res == updateNode(history.present, id, updates, nextRef)
           IN /\ history' = apply(history, Coalesce(res.val, history.present))
              /\ nextRef' = res.next
        /\ call' = [op |-> "apply"]
        /\ UNCHANGED <<selectedId, clipboardId, root, nextUuid, autosave>>

SessionUndo ==
    /\ NearlyFull
    /\ Len(history.future) < MaxUndone
    /\ history' = undo(history)
    /\ call' = [op |-> "undo"]
    /\ UNCHANGED <<selectedId, clipboardId, root, nextRef, nextUuid, autosave>>

SessionRedo ==
    /\ NearlyFull
    /\ history' = redo(history)
    /\ call' = [op |-> "redo"]
    /\ UNCHANGED <<selectedId, clipboardId, root, nextRef, nextUuid, autosave>>

SessionReplace ==
    /\ NearlyFull
    /\ EditsMade < MaxEdits
    /\ history' = replace(createNode(LoadedSceneName, [x \in {} |-> <<>>],
                                     RenderAbsent, TRUE, nextRef, 0))
    /\ nextRef' = nextRef + 1
    /\ call' = [op |-> "replace"]
    /\ UNCHANGED <<selectedId, clipboardId, root, nextUuid, autosave>>

NextSession == SessionEdit \/ SessionUndo \/ SessionRedo \/ SessionReplace

SpecSession == Init /\ [][NextSession]_vars

(***************************************************************************)
(* Drag and drop on the hierarchy panel (TreeNode onDrop): a scene of up to *)
(* MaxUuid nodes is shown, one row is dragged and dropped on another;      *)
(* `call` records the gesture and the history it started from.             *)
(***************************************************************************)
InitHierarchy ==
    /\ \E n \in 0..MaxUuid :
         \E parent \in [1..n -> 0..(MaxUuid - 1)], boxed \in SUBSET (1..n) :
            /\ \A j \in 1..n : parent[j] < j
            /\ history = replace(BuildTree(0, n, parent, boxed))
            /\ nextRef = n + 2
            /\ nextUuid = n + 1
    /\ call = NoCall
    /\ root = Null
    /\ selectedId = NullId
    /\ clipboardId = NullId
    /\ autosave = NoAutosave

\* the targetIndex without the adjustment for a row dragged from above
dropTargetIndex_noAdjust(zone, parentId, indexInParent, dragged) ==
    IF zone = "top" THEN indexInParent ELSE indexInParent + 1

\* the targetIndex onDrop passes to onReorder for a drop on the top or the
\* bottom band of the row (parentId, indexInParent); `dragged` holds the
\* data-parent-id and data-index-in-parent attributes of the dragged row
dropTargetIndex(zone, parentId, indexInParent, dragged) ==
    LET targetIndex == IF zone = "top" THEN indexInParent ELSE indexInParent + 1
    IN IF parentId = dragged.parentId /\ dragged.indexInParent < indexInParent
       THEN targetIndex - 1
       ELSE targetIndex

\* onDrop of the row of node `nodeId`, the row of `draggedId` being dragged
\* and the pointer over the band `zone` of the row
OnDrop ==
    /\ call = NoCall
    /\ \E draggedId \in AllIds, nodeId \in AllIds, zone \in {"top", "middle", "bottom"} :
         /\ findNode(history.present, draggedId) # Null
         /\ findNode(history.present, nodeId) # Null
         /\ LET row == findParentAndIndex(history.present, nodeId)
                dragged == findParentAndIndex(history.present, draggedId)
                targetIndex == dropTargetIndex(zone, row.parentId,
                                               row.indexInParent, dragged)
                reordered == reorderAmongSiblings(history.present, draggedId,
                                                  row.parentId, targetIndex, nextRef)
                reparented == onReparent(history, draggedId, nodeId, nextRef)
            IN /\ call' = [op |-> "drop", zone |-> zone, draggedId |-> draggedId,
                           nodeId |-> nodeId, h |-> history,
                           targetIndex |-> targetIndex]
               /\ IF draggedId = nodeId
                  THEN UNCHANGED <<history, selectedId, nextRef>>
                  ELSE IF zone \in {"top", "bottom"}
                  THEN IF row.parentId # NullId
                       THEN /\ history' = apply(history, Coalesce(reordered.val,
                                                                  history.present))
                            /\ nextRef' = reordered.next
                            /\ selectedId' = draggedId
                       ELSE UNCHANGED <<history, selectedId, nextRef>>
                  ELSE /\ history' = reparented.history
                       /\ nextRef' = reparented.next
                       /\ selectedId' = draggedId
    /\ UNCHANGED <<clipboardId, root, autosave, nextUuid>>

\* Ctrl+Z after the gesture
UndoGesture ==
    /\ call.op = "drop"
    /\ call' = [call EXCEPT !.op = "drop, undo"]
    /\ history' = undo(history)
    /\ UNCHANGED <<selectedId, clipboardId, root, autosave, nextRef, nextUuid>>

NextHierarchy == OnDrop \/ UndoGesture

SpecHierarchy == InitHierarchy /\ [][NextHierarchy]_vars

(***************************************************************************)
(* One paste into a scene of up to MaxUuid nodes, a node of the scene      *)
(* copied and a node selected; `call` records the paste, the history it    *)
(* started from and the ids it used.                                       *)
(***************************************************************************)
InitScene ==
    /\ \E n \in 1..MaxUuid :
         \E parent \in [1..n -> 0..(MaxUuid - 1)], boxed \in SUBSET (1..n) :
            /\ \A j \in 1..n : parent[j] < j
            /\ history = replace(BuildTree(0, n, parent, boxed))
            /\ nextRef = n + 2
            /\ nextUuid = n + 1
    /\ selectedId \in AllIds \ {"root"}
    /\ clipboardId \in AllIds \ {"root"}
    /\ call = NoCall
    /\ root = Null
    /\ autosave = NoAutosave

PasteOnce ==
    /\ call = NoCall
    /\ ~(history.present = Null \/ clipboardId = NullId
         \/ selectedId = NullId \/ selectedId = "root")
    /\ LET res == pasteUpdater(history.present, clipboardId, selectedId,
                               nextRef, nextUuid)
       IN /\ history' = apply(history, res.val)
          /\ clipboardId' = res.clipboard
          /\ selectedId' = IF res.newId # NullId THEN res.newId ELSE selectedId
          /\ nextRef' = res.next
          /\ nextUuid' = res.nextK
          /\ call' = [op |-> "paste", h |-> history, clipboardId |-> clipboardId,
                      selectedId |-> selectedId]
    /\ UNCHANGED <<root, autosave>>

NextScene == PasteOnce

SpecScene == InitScene /\ [][NextScene]_vars

(***************************************************************************)
(* Calls issued before the next render.  apply, undo and redo hand React   *)
(* an updater (setHistory(h => ...)); React keeps the updaters issued      *)
(* since the last render in a queue and, on rendering, runs them in issue  *)
(* order, each on the state returned by the one before.  `history` is the  *)
(* rendered state, call.queue the updaters pending; call.ghost is the      *)
(* state of a second hook given the same calls with a render after each    *)
(* one, call.batch the calls the last render has run.  The scene at the    *)
(* start holds one or two nodes under the root.                            *)
(***************************************************************************)
\* the calls one render may have to run
MaxBatch == 3

\* the updaters of apply(prev => updateNode(prev, id, updates) ?? prev),
\* apply(prev => reparent(prev, childId, newParentId) ?? prev), undo and redo
UpdateCall(id, updates) ==
    [kind |-> "update", id |-> id, updates |-> updates, newParentId |-> NullId]
ReparentCall(childId, newParentId) ==
    [kind |-> "reparent", id |-> childId, updates |-> Null,
     newParentId |-> newParentId]
UndoCall == [kind |-> "undo", id |-> NullId, updates |-> Null, newParentId |-> NullId]
RedoCall == [kind |-> "redo", id |-> NullId, updates |-> Null, newParentId |-> NullId]

\* one updater run on the state h: [history, next]
runUpdater(u, h, r) ==
    IF u.kind = "update"
    THEN LET res == updateNode(h.present, u.id, u.updates, r)
         IN [history |-> apply(h, Coalesce(res.val, h.present)), next |-> res.next]
    ELSE IF u.kind = "reparent"
    THEN LET res == reparent(h.present, u.id, u.newParentId, r)
         IN [history |-> apply(h, Coalesce(res.val, h.present)), next |-> res.next]
    ELSE IF u.kind = "undo" THEN [history |-> undo(h), next |-> r]
    ELSE [history |-> redo(h), next |-> r]

\* every updater computed from the rendered state, the last one kept
RECURSIVE processQueue_fromRendered(_, _, _)
processQueue_fromRendered(h, queue, r) ==
    IF queue = <<>> THEN [history |-> h, next |-> r]
    ELSE LET last == runUpdater(queue[Len(queue)], h, r)
         IN [history |-> last.history, next |-> last.next]

\* the queue of updaters run by a render on the state h: [history, next]
RECURSIVE processQueue(_, _, _)
processQueue(h, queue, r) ==
    IF queue = <<>> THEN [history |-> h, next |-> r]
    ELSE LET first == runUpdater(Head(queue), h, r)
         IN processQueue(first.history, Tail(queue), first.next)

InitBatch ==
    /\ \E n \in 1..2 :
         \E parent \in [1..n -> 0..(MaxUuid - 1)], boxed \in SUBSET (1..n) :
            /\ \A j \in 1..n : parent[j] < j
            /\ history = replace(BuildTree(0, n, parent, boxed))
            /\ nextRef = n + 2
            /\ nextUuid = n + 1
    /\ call = [op |-> "init", queue |-> <<>>, batch |-> <<>>,
               ghost |-> history, ghostRef |-> nextRef]
    /\ root = Null
    /\ selectedId = NullId
    /\ clipboardId = NullId
    /\ autosave = NoAutosave

\* the calls `us` issued one after the other, nothing rendered in between;
\* one batch is followed to its render
Issue(us) ==
    /\ call.op # "rendered"
    /\ Len(call.queue) + Len(us) <= MaxBatch
    /\ LET seq == processQueue(call.ghost, us, call.ghostRef)
       IN call' = [op |-> "issued", queue |-> call.queue \o us, batch |-> <<>>,
                   ghost |-> seq.history, ghostRef |-> seq.next]
    /\ UNCHANGED <<history, selectedId, clipboardId, root, nextRef, nextUuid,
                   autosave>>

IssueUpdate ==
    \E id \in AllIds, updates \in Patches :
        /\ call.ghostRef <= MaxRef
        /\ Issue(<<UpdateCall(id, updates)>>)

\* the reparent gesture: the update the viewport answers the request with
\* (computed on the rendered scene), then the structural reparent
IssueReparent ==
    \E childId \in AllIds, newParentId \in AllIds :
        /\ call.ghostRef <= MaxRef
        /\ childId # newParentId
        /\ LET updates == handleRequestReparent(history.present, childId, newParentId)
           IN Issue((IF updates = Null THEN <<>>
                     ELSE <<UpdateCall(childId, updates)>>)
                    \o <<ReparentCall(childId, newParentId)>>)

IssueUndo == Issue(<<UndoCall>>)

IssueRedo == Issue(<<RedoCall>>)

Render ==
    /\ call.queue # <<>>
    /\ LET res == processQueue(history, call.queue, nextRef)
       IN /\ history' = res.history
          /\ nextRef' = res.next
    /\ call' = [op |-> "rendered", queue |-> <<>>, batch |-> call.queue,
                ghost |-> call.ghost, ghostRef |-> call.ghostRef]
    /\ UNCHANGED <<selectedId, clipboardId, root, nextUuid, autosave>>

NextBatch ==
    \/ IssueUpdate
    \/ IssueReparent
    \/ IssueUndo
    \/ IssueRedo
    \/ Render

SpecBatch == InitBatch /\ [][NextBatch]_vars

(***************************************************************************)
(* The editor driven through its panels only: the hierarchy rows and the   *)
(* viewport hand the handlers ids of nodes of the present tree, so that a  *)
(* handler never selects an id that is not in the tree it was called on.   *)
(***************************************************************************)
\* the id a handler has selected is that of a node of the tree it was
\* called on, or of the node it has added
SelectsShown ==
    \/ selectedId' = selectedId
    \/ selectedId' = NullId
    \/ findNode(history.present, selectedId') # Null
    \/ findNode(history'.present, selectedId') # Null

NextPanels ==
    \/ OnSelectHandler /\ SelectsShown
    \/ OnAddHandler /\ SelectsShown
    \/ OnDeleteHandler /\ SelectsShown
    \/ OnUpdateHandler
    \/ OnReparentHandler /\ SelectsShown
    \/ OnReorderHandler /\ SelectsShown
    \/ OnCopyHandler
    \/ OnPasteHandler
    \/ Undo
    \/ Redo

SpecPanels == Init /\ [][NextPanels]_vars

(***************************************************************************)
(* Vocabulary of the properties.                                           *)
(***************************************************************************)
RECURSIVE Subtrees(_)
\* the node objects of a tree (the tree itself included)
Subtrees(t) ==
    IF t = Null THEN {}
    ELSE {t} \cup UNION { Subtrees(t.children[i]) : i \in 1..Len(t.children) }

RECURSIVE IdSeq(_)
\* the ids of a tree in pre-order
IdSeq(t) ==
    LET RECURSIVE cat(_)
        cat(i) == IF i > Len(t.children) THEN <<>>
                  ELSE IdSeq(t.children[i]) \o cat(i + 1)
    IN IF t = Null THEN <<>> ELSE <<t.id>> \o cat(1)

IdSet(t) == { IdSeq(t)[i] : i \in 1..Len(IdSeq(t)) }

\* no two nodes of t share an id
UniqueIds(t) ==
    \A i, j \in 1..Len(IdSeq(t)) : i # j => IdSeq(t)[i] # IdSeq(t)[j]

\* the node of t with the given id (t has unique ids and holds the id)
NodeOf(t, id) == CHOOSE n \in Subtrees(t) : n.id = id

ChildIds(n) == [i \in 1..Len(n.children) |-> n.children[i].id]

\* the ids of the nodes on the path from the root of t to the node id
PathIds(t, id) == { n.id : n \in { m \in Subtrees(t) : id \in IdSet(m) } }

Depth(t, id) == Cardinality(PathIds(t, id)) - 1

\* the id of the parent of the non-root node id of t
ParentIdOf(t, id) ==
    (CHOOSE p \in Subtrees(t) : \E i \in 1..Len(p.children) : p.children[i].id = id).id

\* seq without its entries equal to x
Without(seq, x) == SelectSeq(seq, LAMBDA y : y # x)

\* the parent-child links of t: <<address of the parent, position, child>>
Links(t) ==
    UNION { { <<p.ref, i, p.children[i]>> : i \in 1..Len(p.children) } :
            p \in Subtrees(t) }

\* t is a tree rooted at "root": no missing child, every node below the root
\* hangs under exactly one parent, the root under none, no node is its own
\* ancestor
WellFormed(t) ==
    /\ t # Null
    /\ t.id = "root"
    /\ \A l \in Links(t) : l[3] # Null
    /\ \A l \in Links(t) : l[3].id # "root"
    /\ \A n \in Subtrees(t) \ {t} :
          Cardinality({ l \in Links(t) : l[3].id = n.id }) = 1
    /\ \A n \in Subtrees(t) :
          \A i \in 1..Len(n.children) : n.id \notin IdSet(n.children[i])

\* what a `render` value draws: its primitive, "none" when it draws nothing
Marker(render) == IF Truthy(render) THEN render.primitive ELSE "none"

\* nodes a and b agree on id, name, transform values and render marker
SameFields(a, b) ==
    /\ a.id = b.id
    /\ a.name = b.name
    /\ a.transform = b.transform
    /\ Marker(a.render) = Marker(b.render)

(***************************************************************************)
(* Properties of the editor (specification Spec).                          *)
(***************************************************************************)
\* C1: in every state reached through the handlers (add of a fresh node,
\* delete, update, reparent, reorder, paste of a clone, undo, redo), no two
\* nodes of the present tree share an id.
C1_UniqueIds == UniqueIds(history.present)

\* a clone has been pasted next to its source, after at least two edits
C1_Witness ==
    /\ Len(history.past) >= 2
    /\ \E n \in Subtrees(history.present) :
          /\ Len(n.children) >= 2
          /\ n.children[1].name = NewNodeName
          /\ n.children[2].name = NewNodeName \o <<" ", "(", "1", ")">>

\* C2: in every state reached through the handlers the present tree is not
\* null, its root has id "root", every other node has exactly one parent, no
\* node is its own ancestor and no children sequence holds a null entry.
C2_WellFormed == WellFormed(history.present)

\* a reparent has acted: the second node created hung under the root in the
\* previous snapshot and sits two levels below the root now
C2_Witness ==
    /\ Len(history.past) >= 1
    /\ LET before == history.past[Len(history.past)]
       IN /\ uuidv4(2) \in IdSet(before)
          /\ Depth(before, uuidv4(2)) = 1
          /\ uuidv4(2) \in IdSet(history.present)
          /\ Depth(history.present, uuidv4(2)) = 2

(***************************************************************************)
(* Properties of the tree algebra (specification SpecTree): `call` holds   *)
(* the call made on the tree call.root and its result call.res.            *)
(***************************************************************************)
\* C3: reparent(T, childId, parentId) with parentId a proper descendant of
\* childId returns T itself (the same object): nothing is removed or moved.
C3_ReparentUnderDescendantAborts ==
    ( /\ call.op = "reparent"
      /\ call.childId \in IdSet(call.root)
      /\ call.parentId # call.childId
      /\ call.parentId \in IdSet(NodeOf(call.root, call.childId)) )
    => call.res.val = call.root

\* the tree holds A -> B -> C below the root and A is reparented under C
C3_Witness ==
    /\ call.op = "reparent"
    /\ call.childId \in IdSet(call.root)
    /\ call.childId # "root"
    /\ call.parentId \in IdSet(NodeOf(call.root, call.childId))
    /\ Depth(call.root, call.parentId) = Depth(call.root, call.childId) + 2

\* C4: reparent(T, childId, parentId) with childId a node of T below the root
\* and parentId not in T returns T itself, childId's subtree still in it.
C4_ReparentMissingParentIsNoOp ==
    ( /\ call.op = "reparent"
      /\ call.childId \in IdSet(call.root)
      /\ call.childId # call.root.id
      /\ call.parentId \notin IdSet(call.root) )
    => call.res.val = call.root

\* C5: reparent(T, childId, parentId) returns T itself when childId equals
\* parentId, when childId is not in T, or when childId is the root's id.
C5_ReparentNoOps ==
    ( /\ call.op = "reparent"
      /\ \/ call.childId = call.parentId
         \/ call.childId \notin IdSet(call.root)
         \/ call.childId = call.root.id )
    => call.res.val = call.root

\* the root of a tree with nodes below it is reparented under one of them
C5_Witness ==
    /\ call.op = "reparent"
    /\ call.childId = call.root.id
    /\ call.parentId \in IdSet(call.root) \ {call.root.id}

\* C6: when childId and parentId are nodes of T, childId is not the root,
\* differs from parentId, and parentId is not in childId's subtree, the
\* result of reparent holds childId's subtree, unchanged, as the last child
\* of parentId; childId's former parent keeps its other children in their
\* order (and no longer holds childId, unless it is parentId); the ids of
\* the tree are the ids before the call.
C6_ReparentMoves ==
    ( /\ call.op = "reparent"
      /\ call.childId \in IdSet(call.root)
      /\ call.parentId \in IdSet(call.root)
      /\ call.childId # call.root.id
      /\ call.childId # call.parentId
      /\ call.parentId \notin IdSet(NodeOf(call.root, call.childId)) )
    => LET T == call.root
           out == call.res.val
           former == ParentIdOf(T, call.childId)
       IN /\ out # Null
          /\ IdSet(out) = IdSet(T)
          /\ Len(IdSeq(out)) = Len(IdSeq(T))
          /\ LET kids == NodeOf(out, call.parentId).children
             IN /\ Len(kids) >= 1
                /\ kids[Len(kids)] = NodeOf(T, call.childId)
          /\ Without(ChildIds(NodeOf(out, former)), call.childId)
                = Without(ChildIds(NodeOf(T, former)), call.childId)
          /\ former # call.parentId =>
                \A i \in 1..Len(NodeOf(out, former).children) :
                    NodeOf(out, former).children[i].id # call.childId

\* a node with a sibling is moved under another parent that has a child
C6_Witness ==
    /\ call.op = "reparent"
    /\ call.childId \in IdSet(call.root) \ {call.root.id}
    /\ call.parentId \in IdSet(call.root) \ {call.childId}
    /\ call.parentId \notin IdSet(NodeOf(call.root, call.childId))
    /\ ParentIdOf(call.root, call.childId) # call.parentId
    /\ Len(NodeOf(call.root, call.parentId).children) >= 1
    /\ Len(NodeOf(call.root, ParentIdOf(call.root, call.childId)).children) >= 2
    /\ call.res.val # call.root

\* C7: for an id that is not in T, addChild(T, id, n), updateNode(T, id,
\* patch) and reorderAmongSiblings(T, c, id, i) return T itself, and
\* removeNode(T, id) returns newRoot T itself and removed null.
C7_AbsentIdIsNoOp ==
    /\ (call.op = "addChild" /\ call.parentId \notin IdSet(call.root))
          => call.res.val = call.root
    /\ (call.op = "updateNode" /\ call.targetId \notin IdSet(call.root))
          => call.res.val = call.root
    /\ (call.op = "reorderAmongSiblings" /\ call.parentId \notin IdSet(call.root))
          => call.res.val = call.root
    /\ (call.op = "removeNode" /\ call.targetId \notin IdSet(call.root))
          => (call.res.newRoot = call.root /\ call.res.removed = Null)

\* removeNode is called with an absent id on a tree three levels deep
C7_Witness ==
    /\ call.op = "removeNode"
    /\ call.targetId \notin IdSet(call.root)
    /\ \E id \in IdSet(call.root) : Depth(call.root, id) = 2

\* the node a call edits: the update target, or the parent whose children
\* list changes; NullId when the call edits nothing
EditedId(c) ==
    IF c.op = "updateNode" /\ c.targetId \in IdSet(c.root) THEN c.targetId
    ELSE IF c.op = "addChild" /\ c.parentId \in IdSet(c.root) THEN c.parentId
    ELSE IF c.op = "removeNode" /\ c.targetId \in IdSet(c.root)
            /\ c.targetId # c.root.id
    THEN ParentIdOf(c.root, c.targetId)
    ELSE IF c.op = "reorderAmongSiblings" /\ c.parentId \in IdSet(c.root)
            /\ c.childId # c.root.id
            /\ \E i \in 1..Len(NodeOf(c.root, c.parentId).children) :
                  /\ NodeOf(c.root, c.parentId).children[i].id = c.childId
                  /\ i - 1 # c.targetIndex
    THEN c.parentId
    ELSE NullId

\* the tree a call returns
Returned(c) == IF c.op = "removeNode" THEN c.res.newRoot ELSE c.res.val

\* C8: after addChild, updateNode, removeNode or reorderAmongSiblings edits
\* a node at depth d, exactly the d + 1 nodes on the path from the root to
\* that node are newly allocated objects, and every other node of the
\* result is the very object the input tree (or the added node) holds.
C8_StructuralSharing ==
    (call.op # "none" /\ EditedId(call) # NullId)
    => LET T == call.root
           out == Returned(call)
           path == PathIds(T, EditedId(call))
           given == Subtrees(T) \cup
                    (IF call.op = "addChild" THEN Subtrees(call.node) ELSE {})
       IN /\ out # Null
          /\ call.res.next - call.r = Depth(T, EditedId(call)) + 1
          /\ \A n \in Subtrees(out) : (n.ref >= call.r) <=> (n.id \in path)
          /\ \A n \in Subtrees(out) : n.id \notin path => n \in given
          /\ \A n \in Subtrees(T) :
                (EditedId(call) \notin IdSet(n) /\ n.id \in IdSet(out))
                   => n \in Subtrees(out)

\* a node two levels below the root is updated in a tree whose root has a
\* second subtree
C8_Witness ==
    /\ call.op = "updateNode"
    /\ call.targetId \in IdSet(call.root)
    /\ Depth(call.root, call.targetId) = 2
    /\ Len(call.root.children) >= 2

\* C9: removeNode(T, x) for a node x of T below the root returns x's
\* original subtree as removed and a newRoot holding exactly the nodes of T
\* outside that subtree, each with its name, transform and children (x
\* left out) in their order.
C9_CascadeDelete ==
    ( /\ call.op = "removeNode"
      /\ call.targetId \in IdSet(call.root)
      /\ call.targetId # call.root.id )
    => LET T == call.root
           X == NodeOf(T, call.targetId)
           out == call.res.newRoot
       IN /\ call.res.removed = X
          /\ out # Null
          /\ IdSet(out) = IdSet(T) \ IdSet(X)
          /\ Len(IdSeq(out)) = Len(IdSeq(T)) - Len(IdSeq(X))
          /\ \A n \in Subtrees(out) :
                LET o == NodeOf(T, n.id)
                IN /\ ChildIds(n) = Without(ChildIds(o), call.targetId)
                   /\ n.name = o.name
                   /\ n.transform = o.transform

\* the removed node has a child and a sibling
C9_Witness ==
    /\ call.op = "removeNode"
    /\ call.targetId \in IdSet(call.root) \ {call.root.id}
    /\ Len(NodeOf(call.root, call.targetId).children) >= 1
    /\ Len(NodeOf(call.root, ParentIdOf(call.root, call.targetId)).children) >= 2

\* C10: removeNode(T, id of T's root) returns newRoot null and removed T.
C10_RemoveRoot ==
    (call.op = "removeNode" /\ call.targetId = call.root.id)
    => (call.res.newRoot = Null /\ call.res.removed = call.root)

\* the root of a tree with nodes below it is removed
C10_Witness ==
    /\ call.op = "removeNode"
    /\ call.targetId = call.root.id
    /\ Len(call.root.children) >= 1
    /\ root = Null

\* C11: addChild(T, parentId, n) with parentId in T returns a tree in which
\* parentId's children are its previous children, in their order, followed
\* by n as the last child; every node of T keeps its id, name, transform and
\* render marker, and every node other than parentId keeps its children, so
\* that each keeps its parent and its position among its siblings.
C11_AddChildAppends ==
    (call.op = "addChild" /\ call.parentId \in IdSet(call.root))
    => LET T == call.root
           out == call.res.val
       IN /\ out # Null
          /\ NodeOf(out, call.parentId).children
                = Append(NodeOf(T, call.parentId).children, call.node)
          /\ IdSeq(out) # <<>>
          /\ Len(IdSeq(out)) = Len(IdSeq(T)) + Len(IdSeq(call.node))
          /\ \A n \in Subtrees(T) :
                /\ n.id \in IdSet(out)
                /\ SameFields(NodeOf(out, n.id), n)
                /\ n.id # call.parentId
                      => ChildIds(NodeOf(out, n.id)) = ChildIds(n)
          /\ \A n \in Subtrees(call.node) : n \in Subtrees(out)

\* a node holding a child is added under a parent one level below the root
\* that already has a child and a sibling
C11_Witness ==
    /\ call.op = "addChild"
    /\ call.parentId \in IdSet(call.root)
    /\ Depth(call.root, call.parentId) = 1
    /\ Len(NodeOf(call.root, call.parentId).children) >= 1
    /\ Len(call.root.children) >= 2
    /\ Len(call.node.children) = 1
    /\ Len(NodeOf(root, call.parentId).children) >= 2

\* C12: updateNode(T, targetId, patch) with targetId in T returns a tree in
\* which the target's name is patch.name if given and the prior name
\* otherwise; each of position, rotation and scale is the patch's vector if
\* given and the prior vector otherwise; render, if the patch gives one,
\* holds every key of the patch's render with the patch's value and every
\* other key of the prior render with its prior value, and otherwise draws
\* what it drew; the target's id and children are the ones before; every
\* other node keeps its fields and children, and the tree its pre-order.
C12_UpdateNodePatches ==
    (call.op = "updateNode" /\ call.targetId \in IdSet(call.root))
    => LET T == call.root
           out == call.res.val
           u == call.updates
           o == NodeOf(T, call.targetId)
           n == NodeOf(out, call.targetId)
           given(f) == "transform" \in DOMAIN u /\ f \in DOMAIN u.transform
       IN /\ out # Null
          /\ IdSeq(out) = IdSeq(T)
          /\ n.name = (IF "name" \in DOMAIN u THEN u.name ELSE o.name)
          /\ \A f \in {"position", "rotation", "scale"} :
                n.transform[f] = (IF given(f) THEN u.transform[f] ELSE o.transform[f])
          /\ DOMAIN n.transform = {"position", "rotation", "scale"}
          /\ IF "render" \in DOMAIN u
             THEN /\ \A k \in DOMAIN u.render : n.render[k] = u.render[k]
                  /\ Truthy(o.render) =>
                        \A k \in DOMAIN o.render \ DOMAIN u.render :
                            n.render[k] = o.render[k]
             ELSE Marker(n.render) = Marker(o.render)
          /\ n.id = o.id
          /\ n.children = o.children
          /\ \A m \in Subtrees(T) :
                m.id # call.targetId
                   => /\ SameFields(NodeOf(out, m.id), m)
                      /\ ChildIds(NodeOf(out, m.id)) = ChildIds(m)

\* a node that draws a box and holds a child, one level below the root, is
\* given another render marker
C12_Witness ==
    /\ call.op = "updateNode"
    /\ call.targetId \in IdSet(call.root)
    /\ Depth(call.root, call.targetId) = 1
    /\ "render" \in DOMAIN call.updates
    /\ Marker(NodeOf(call.root, call.targetId).render) = "box"
    /\ Len(NodeOf(call.root, call.targetId).children) >= 1
    /\ Marker(NodeOf(root, call.targetId).render) = "sphere"

\* C13: when updateNode patches a vector (position, rotation or scale) with
\* fewer than three components, the target's vector holds the patch's
\* components where the patch has them and the prior components elsewhere.
C13_MissingComponentsFallBack ==
    (call.op = "updateNode" /\ call.targetId \in IdSet(call.root)
        /\ "transform" \in DOMAIN call.updates)
    => LET o == NodeOf(call.root, call.targetId)
           n == NodeOf(call.res.val, call.targetId)
           t == call.updates.transform
       IN \A f \in DOMAIN t :
             Len(t[f]) < 3
                => n.transform[f] = [i \in 1..3 |-> IF i <= Len(t[f]) THEN t[f][i]
                                                    ELSE o.transform[f][i]]

\* the 0-based index of the child with the given id among the children of
\* node p, -1 when p holds no such child
IndexIn(p, id) ==
    IF \E i \in 1..Len(p.children) : p.children[i].id = id
    THEN (CHOOSE i \in 1..Len(p.children) : p.children[i].id = id) - 1
    ELSE -1

\* C14: when parentId is a node of T with n children, childId among them at
\* an index other than targetIndex, reorderAmongSiblings(T, childId,
\* parentId, targetIndex) returns a tree in which childId is at index
\* targetIndex limited to 0..n-1 among parentId's children (last for any
\* targetIndex >= n-1, first for any targetIndex <= 0), the other children
\* are in their former relative order, and the children are the same nodes.
C14_ReorderClamps ==
    ( /\ call.op = "reorderAmongSiblings"
      /\ call.parentId \in IdSet(call.root)
      /\ IndexIn(NodeOf(call.root, call.parentId), call.childId) # -1
      /\ IndexIn(NodeOf(call.root, call.parentId), call.childId) # call.targetIndex )
    => LET before == NodeOf(call.root, call.parentId).children
           n == Len(before)
           out == call.res.val
       IN /\ out # Null
          /\ call.parentId \in IdSet(out)
          /\ LET after == NodeOf(out, call.parentId).children
                 at == IndexIn(NodeOf(out, call.parentId), call.childId)
             IN /\ Len(after) = n
                /\ at = (IF call.targetIndex >= n - 1 THEN n - 1
                         ELSE IF call.targetIndex <= 0 THEN 0
                         ELSE call.targetIndex)
                /\ at = clamp(call.targetIndex, 0, n - 1)
                /\ Without(ChildIds(NodeOf(out, call.parentId)), call.childId)
                      = Without(ChildIds(NodeOf(call.root, call.parentId)),
                                call.childId)
                /\ { after[i] : i \in 1..n } = { before[i] : i \in 1..n }
          /\ IdSet(out) = IdSet(call.root)

\* the first of three siblings is sent beyond the end and lands last
C14_Witness ==
    /\ call.op = "reorderAmongSiblings"
    /\ call.parentId \in IdSet(call.root)
    /\ Len(NodeOf(call.root, call.parentId).children) = 3
    /\ IndexIn(NodeOf(call.root, call.parentId), call.childId) = 0
    /\ call.targetIndex > 2
    /\ IndexIn(NodeOf(root, call.parentId), call.childId) = 2

\* C15: reorderAmongSiblings(T, childId, parentId, targetIndex) returns T
\* itself (the same object) when childId is not a direct child of parentId
\* (parentId absent from T included), when targetIndex is childId's current
\* index, or when childId is the id of T's root, whatever parentId is.
C15_ReorderNoOps ==
    ( /\ call.op = "reorderAmongSiblings"
      /\ \/ call.childId = call.root.id
         \/ call.parentId \notin IdSet(call.root)
         \/ IndexIn(NodeOf(call.root, call.parentId), call.childId) = -1
         \/ IndexIn(NodeOf(call.root, call.parentId), call.childId) = call.targetIndex )
    => /\ call.res.val = call.root
       /\ ~DiffRef(call.res.val, call.root)
       /\ call.res.next = call.r

\* the second of two siblings below the root's child is reordered to the
\* index it already has
C15_Witness ==
    /\ call.op = "reorderAmongSiblings"
    /\ call.parentId \in IdSet(call.root)
    /\ Depth(call.root, call.parentId) = 1
    /\ Len(NodeOf(call.root, call.parentId).children) = 2
    /\ IndexIn(NodeOf(call.root, call.parentId), call.childId) = 1
    /\ call.targetIndex = 1
    /\ root = call.root

RECURSIVE NodeSeq(_)
\* the node objects of a tree in pre-order: self, then children left to right
NodeSeq(t) ==
    LET RECURSIVE cat(_)
        cat(i) == IF i > Len(t.children) THEN <<>>
                  ELSE NodeSeq(t.children[i]) \o cat(i + 1)
    IN IF t = Null THEN <<>> ELSE <<t>> \o cat(1)

\* C16: findNode(T, id) returns the first node of T in pre-order whose id is
\* id, the very object T holds, and returns null exactly when T is null or
\* no node of T has that id.
C16_FindNodePreOrder ==
    call.op = "findNode"
    => LET T == call.root
           seq == NodeSeq(T)
           hits == { i \in 1..Len(seq) : seq[i].id = call.targetId }
       IN /\ (call.res = Null) <=> (T = Null \/ hits = {})
          /\ hits # {} =>
                /\ call.res \in Subtrees(T)
                /\ \E i \in hits : /\ seq[i] = call.res
                                   /\ ~DiffRef(seq[i], call.res)
                                   /\ \A j \in hits : i <= j

\* the node found is the second child of the root, visited after the first
\* child and that child's own child
C16_Witness ==
    /\ call.op = "findNode"
    /\ call.root # Null
    /\ call.res # Null
    /\ Len(call.root.children) >= 2
    /\ Len(call.root.children[1].children) >= 1
    /\ call.res = call.root.children[2]

\* C17: findParentAndIndex(T, id) returns {parentId: null, indexInParent:
\* -1} when id is the id of T's root; returns null exactly when findNode(T,
\* id) returns null; and otherwise returns {parentId: p, indexInParent: i}
\* such that the node findNode(T, p) returns holds, at position i of its
\* children, the node whose id is id.
C17_FindParentAndIndex ==
    call.op = "findParentAndIndex"
    => LET T == call.root
           found == findNode(T, call.targetId)
       IN /\ (T # Null /\ call.targetId = T.id)
                => call.res = [parentId |-> NullId, indexInParent |-> -1]
          /\ (call.res = Null) <=> (found = Null)
          /\ (call.res # Null /\ call.targetId # T.id)
                => LET p == findNode(T, call.res.parentId)
                       i == call.res.indexInParent
                   IN /\ p # Null
                      /\ i >= 0
                      /\ i < Len(p.children)
                      /\ p.children[i + 1].id = call.targetId
                      /\ p.children[i + 1] = found

\* the node looked up is the second child of a node below the root
C17_Witness ==
    /\ call.op = "findParentAndIndex"
    /\ call.res # Null
    /\ call.res.parentId \notin {NullId, "root"}
    /\ call.res.indexInParent = 1

RECURSIVE Isomorphic(_, _)
\* trees a and b have the same shape and child order, and nodes in the same
\* place have the same name, transform values and render marker
Isomorphic(a, b) ==
    /\ a.name = b.name
    /\ a.transform = b.transform
    /\ Marker(a.render) = Marker(b.render)
    /\ Len(a.children) = Len(b.children)
    /\ \A i \in 1..Len(a.children) : Isomorphic(a.children[i], b.children[i])

\* C18: cloneNode(s) returns a tree with the shape, child order, names,
\* transform values and render markers of s in which every id is freshly
\* generated: no id of the clone is an id of s (or of the tree holding s),
\* and the ids of the clone are pairwise distinct.
C18_CloneFreshIds ==
    call.op = "cloneNode"
    => LET s == call.node
           c == call.res.val
       IN /\ Isomorphic(s, c)
          /\ IdSet(c) \cap IdSet(s) = {}
          /\ IdSet(c) \cap IdSet(call.root) = {}
          /\ UniqueIds(c)
          /\ Len(IdSeq(c)) = Len(IdSeq(s))

\* the subtree cloned has a child that has a child, and draws a box
C18_Witness ==
    /\ call.op = "cloneNode"
    /\ call.node.id # "root"
    /\ Marker(call.node.render) = "box"
    /\ Len(call.node.children) = 1
    /\ Len(call.node.children[1].children) = 1
    /\ Len(IdSeq(call.res.val)) = 3

(***************************************************************************)
(* Properties of paste (specification SpecPaste).  After a paste that      *)
(* changed the tree, the last snapshot of the past is the tree before the  *)
(* paste, the clipboard still names the source and the clone is selected.  *)
(***************************************************************************)
\* a paste has changed the tree
Pasted == Len(history.past) >= 1

TreeBeforePaste == history.past[Len(history.past)]

PasteSource == NodeOf(TreeBeforePaste, clipboardId)

PastedClone == NodeOf(history.present, selectedId)

\* the destination parent, before and after the paste
PasteParentBefore == NodeOf(TreeBeforePaste, ParentIdOf(history.present, selectedId))

PasteParentAfter == NodeOf(history.present, ParentIdOf(history.present, selectedId))

\* name is b, then k spaces, then "(", one or more digits, ")"
IsNumbered(name, b, k) ==
    LET n == Len(name)
        m == Len(b)
    IN /\ n >= m + k + 3
       /\ SubSeq(name, 1, m) = b
       /\ \A i \in (m + 1)..(m + k) : name[i] = " "
       /\ name[m + k + 1] = "("
       /\ name[n] = ")"
       /\ \A i \in (m + k + 2)..(n - 1) : IsDigit(name[i])

\* the n of a name "b (n)"
NumberIn(name, b) == DecimalValue(SubSeq(name, Len(b) + 3, Len(name) - 1))

\* name without its trailing " (n)", the spaces before the "(" all removed
BaseOf(name) ==
    LET bases == { b \in { SubSeq(name, 1, i) : i \in 0..Len(name) } :
                     \E k \in 1..Len(name) : IsNumbered(name, b, k) }
    IN IF bases = {} THEN name
       ELSE CHOOSE b \in bases : \A c \in bases : Len(b) <= Len(c)

\* the children named base or "base (n)", and the largest n among them, a
\* child named base counting as 0
Colliding(children, base) ==
    { i \in 1..Len(children) :
         children[i].name = base \/ IsNumbered(children[i].name, base, 1) }

CollisionNumber(child, base) ==
    IF child.name = base THEN NumberOf(0, 0) ELSE NumberIn(child.name, base)

MaxCollision(children, base) ==
    LET c == Colliding(children, base)
        top == CHOOSE i \in c : \A j \in c :
                  ~NumberLess(CollisionNumber(children[i], base),
                              CollisionNumber(children[j], base))
    IN CollisionNumber(children[top], base)

\* C19: after a paste that changed the tree, with base the source's name
\* without its trailing " (n)", the clone is named base followed by
\* " (maxN + 1)", maxN being the largest n among the children the
\* destination parent had that were named "base (n)" or base (counting as
\* 0), if there was such a child, and is named base if there was none.
C19_PasteName ==
    Pasted
    => LET base == BaseOf(PasteSource.name)
           siblings == PasteParentBefore.children
       IN PastedClone.name =
             (IF Colliding(siblings, base) = {} THEN base
              ELSE base \o <<" ", "(">>
                        \o numberToString(Succ(MaxCollision(siblings, base)))
                        \o <<")">>)

\* C20: after a paste that changed the tree, no other child of the
\* destination parent has the name of the pasted clone.
C20_PastedNameIsUnique ==
    Pasted
    => \A i \in 1..Len(PasteParentAfter.children) :
          PasteParentAfter.children[i].id # selectedId
             => PasteParentAfter.children[i].name # PastedClone.name

(***************************************************************************)
(* Properties of the history hook (specification SpecHistory): `call`      *)
(* holds the last call, made on the history call.h, and `history` is what  *)
(* it left.                                                                *)
(***************************************************************************)
\* C21: apply(fn) leaves past, present and future as they were when
\* fn(present) is the present object itself, a pending redo branch
\* included; otherwise it appends the old present to past, makes
\* fn(present) the present and empties future, so that canRedo is false
\* (a past already MAX_HISTORY long loses its oldest entry, see C22).
C21_ApplyPushesOrRejects ==
    call.op = "apply"
    => IF ~DiffRef(call.next, call.h.present)
       THEN history = call.h
       ELSE /\ history.past = Append(IF Len(call.h.past) >= MAX_HISTORY
                                     THEN Tail(call.h.past) ELSE call.h.past,
                                     call.h.present)
            /\ history.present = call.next
            /\ history.future = <<>>
            /\ ~canRedo(history)

\* an edit of an absent id is rejected while two states wait to be redone
C21_Witness ==
    /\ call.op = "apply"
    /\ ~DiffRef(call.next, call.h.present)
    /\ Len(call.h.future) = 2
    /\ Len(call.h.past) >= 1
    /\ Len(history.future) = 2

\* C23: undo() changes nothing when past is empty, which is exactly when
\* canUndo is false; otherwise it removes the newest entry of past, makes it
\* the present and puts the old present on top of future, the rest of past
\* and future staying as they were.
C23_Undo ==
    call.op = "undo"
    => LET h == call.h
           n == Len(h.past)
       IN /\ canUndo(h) <=> (h.past # <<>>)
          /\ IF h.past = <<>>
             THEN history = h
             ELSE /\ history.past = SubSeq(h.past, 1, n - 1)
                  /\ history.present = h.past[n]
                  /\ Len(history.future) = Len(h.future) + 1
                  /\ history.future[Len(history.future)] = h.present
                  /\ SubSeq(history.future, 1, Len(h.future)) = h.future

\* undo is called with two entries in past and one state already undone
C23_Witness ==
    /\ call.op = "undo"
    /\ Len(call.h.past) = 2
    /\ Len(call.h.future) = 1
    /\ Len(history.future) = 2

\* C24: redo() changes nothing when future is empty, which is exactly when
\* canRedo is false; otherwise it removes the entry undone last from future,
\* makes it the present and appends the old present to past, the rest of
\* past and future staying as they were.
C24_Redo ==
    call.op = "redo"
    => LET h == call.h
           n == Len(h.future)
       IN /\ canRedo(h) <=> (h.future # <<>>)
          /\ IF h.future = <<>>
             THEN history = h
             ELSE /\ history.future = SubSeq(h.future, 1, n - 1)
                  /\ history.present = h.future[n]
                  /\ history.past = Append(h.past, h.present)

\* redo is called with two states undone and one entry in past
C24_Witness ==
    /\ call.op = "redo"
    /\ Len(call.h.future) = 2
    /\ Len(call.h.past) = 1
    /\ Len(history.past) = 2

\* seq in reverse order
Reverse(seq) == [i \in 1..Len(seq) |-> seq[Len(seq) + 1 - i]]

C26_Replace ==
    call.op = "replace"
    => /\ history = [past |-> <<>>, present |-> call.next, future |-> <<>>]
       /\ ~canUndo(history)
       /\ ~canRedo(history)
       /\ undo(history) = history
       /\ redo(history) = history

\* a scene is loaded over a history with an entry to undo and one to redo
C26_Witness ==
    /\ call.op = "replace"
    /\ Len(call.h.past) >= 1
    /\ Len(call.h.future) >= 1
    /\ history.present.name = LoadedSceneName

(***************************************************************************)
(* Property of a long run of edits (specification SpecLongRun): the root   *)
(* made present by the j-th edit sits at [j, 0, 0], the initial one at     *)
(* [0, 0, 0].                                                              *)
(***************************************************************************)
\* C22: after n tree-changing applies from the initial state, past holds
\* the min(n, MAX_HISTORY) most recent prior presents, oldest first; after
\* MAX_HISTORY + 5 applies its length is MAX_HISTORY and the initial tree
\* and the four after it are gone.
C22_HistoryBound ==
    LET n == EditsMade
        len == Min(n, MAX_HISTORY)
    IN /\ Len(history.past) = len
       /\ \A i \in 1..len :
             history.past[i].transform.position = <<n - len + i - 1, 0, 0>>
       /\ history.present.transform.position = <<n, 0, 0>>
       /\ history.future = <<>>

\* MAX_HISTORY + 5 edits have been applied: the oldest snapshot held is the
\* one the fifth edit made
C22_Witness ==
    /\ EditsMade = MAX_HISTORY + 5
    /\ Len(history.past) = MAX_HISTORY
    /\ history.past[1].transform.position = <<5, 0, 0>>
    /\ history.past[MAX_HISTORY].transform.position = <<MAX_HISTORY + 4, 0, 0>>

(***************************************************************************)
(* Properties of the tree operations on an absent tree (SpecTree).         *)
(***************************************************************************)
\* C27: with a null root, findNode, findParentAndIndex, addChild,
\* updateNode, reparent and reorderAmongSiblings return null and removeNode
\* returns {newRoot: null, removed: null}, whatever the other arguments
\* are, and none of them builds anything.
C27_NullRoot ==
    call.op = "nullRoot" =>
        /\ call.res.next = call.r
        /\ IF call.fn = "removeNode"
           THEN call.res.newRoot = Null /\ call.res.removed = Null
           ELSE call.res.val = Null

\* addChild was handed a node and no root
C27_Witness ==
    /\ call.op = "nullRoot"
    /\ call.fn = "addChild"
    /\ call.node # Null
    /\ call.res.val = Null

(***************************************************************************)
(* Adding a node and removing it again (SpecTree).                         *)
(***************************************************************************)
\* what a tree holds, the addresses of its objects left out; a render key
\* holding undefined and a missing render key both say "no marker"
RECURSIVE Content(_)
Content(t) ==
    [id        |-> t.id,
     name      |-> t.name,
     transform |-> t.transform,
     render    |-> IF Truthy(t.render) THEN t.render ELSE RenderAbsent,
     children  |-> [i \in 1..Len(t.children) |-> Content(t.children[i])]]

\* C29: for a tree T, an existing parentId and a fresh node n, removing
\* n.id from addChild(T, parentId, n), with or without an updateNode on n
\* in between, gives a newRoot structurally equal to T, and removed is n
\* with the fields the update set: name "updated" and position [5,5,5],
\* rotation and scale the defaults, children those of n.
C29_AddThenRemove ==
    call.op = "addUpdateRemove" =>
        /\ call.res.newRoot # Null
        /\ Content(call.res.newRoot) = Content(call.root)
        /\ call.res.removed # Null
        /\ IF call.doUpdate
           THEN /\ call.res.removed.id = call.node.id
                /\ call.res.removed.name = UpdatedName
                /\ call.res.removed.transform =
                       [position |-> <<5, 5, 5>>, rotation |-> <<0, 0, 0>>,
                        scale |-> <<1, 1, 1>>]
                /\ Marker(call.res.removed.render) = Marker(call.node.render)
                /\ call.res.removed.children = call.node.children
           ELSE call.res.removed = call.node

\* a node holding a child was added below the root's level, patched and
\* removed
C29_Witness ==
    /\ call.op = "addUpdateRemove"
    /\ call.doUpdate
    /\ call.parentId # "root"
    /\ Len(call.node.children) = 1
    /\ Len(call.root.children) > 0
    /\ call.res.removed.name = UpdatedName
    /\ DiffRef(call.res.newRoot, call.root)

(***************************************************************************)
(* Immutability of the trees the editor holds (Spec).                      *)
(***************************************************************************)
\* the node objects reachable from the snapshots of a history
Held(h) ==
    Subtrees(h.present)
        \cup UNION { Subtrees(h.past[i]) : i \in 1..Len(h.past) }
        \cup UNION { Subtrees(h.future[i]) : i \in 1..Len(h.future) }

\* C28: no tree operation or history transition mutates a tree it was
\* given: an object held by a snapshot before a step (edit, paste, undo or
\* redo) has in every snapshot held after the step exactly the content it
\* had, and two snapshots never disagree on the content of an object.
C28_NoMutation ==
    [][\A a \in Held(history) \cup Held(history'), b \in Held(history') :
          a.ref = b.ref => a = b]_vars

\* an edit was undone, and the present tree shares a node object with the
\* undone snapshot and with the one before it although the trees differ
C28_Witness ==
    /\ Len(history.past) >= 1
    /\ Len(history.future) >= 1
    /\ DiffRef(history.present, history.future[1])
    /\ \E a \in Subtrees(history.present) :
          /\ a.id # "root"
          /\ a \in Subtrees(history.future[1])
          /\ a \in Subtrees(history.past[Len(history.past)])

(***************************************************************************)
(* Auto-save (SpecAutosave).                                               *)
(***************************************************************************)
\* C30: every change of the present root cancels the pending save and
\* schedules a new one, so every write to local storage stores the root
\* that is present when the write happens.
C30_WritesPresentRoot ==
    [][autosave'.stored # autosave.stored
          => autosave'.stored = PersistedScene(history'.present)]_vars

(***************************************************************************)
(* Drag and drop on the hierarchy (SpecHierarchy).                         *)
(***************************************************************************)
\* a drop of the dragged row D on the band `zone` of a row T with the same
\* parent has just been handled
DroppedOnSibling(zone) ==
    /\ call.op = "drop"
    /\ call.zone = zone
    /\ call.draggedId # call.nodeId
    /\ call.draggedId # "root"
    /\ call.nodeId # "root"
    /\ ParentIdOf(call.h.present, call.draggedId)
          = ParentIdOf(call.h.present, call.nodeId)

\* C31: dropping a dragged node D on the top band of a row T that has the
\* same parent places D immediately before T among that parent's children,
\* dropping it on the bottom band places D immediately after T, whether D
\* was above or below T; the other siblings keep their relative order.
C31_DropOnBand ==
    \A zone \in {"top", "bottom"} :
        DroppedOnSibling(zone) =>
            LET parentId == ParentIdOf(call.h.present, call.nodeId)
                before == ChildIds(NodeOf(call.h.present, parentId))
                after == ChildIds(NodeOf(history.present, parentId))
                d == IndexIn(NodeOf(history.present, parentId), call.draggedId)
                t == IndexIn(NodeOf(history.present, parentId), call.nodeId)
            IN /\ IdSet(history.present) = IdSet(call.h.present)
               /\ Len(after) = Len(before)
               /\ IF zone = "top" THEN d + 1 = t ELSE d = t + 1
               /\ Without(after, call.draggedId) = Without(before, call.draggedId)

\* D was the first of three children and was dropped on the bottom band of
\* the last
C31_Witness ==
    /\ DroppedOnSibling("bottom")
    /\ LET parentId == ParentIdOf(call.h.present, call.nodeId)
           before == ChildIds(NodeOf(call.h.present, parentId))
           after == ChildIds(NodeOf(history.present, parentId))
       IN /\ Len(before) = 3
          /\ before[1] = call.draggedId
          /\ before[3] = call.nodeId
          /\ after = <<before[2], before[3], before[1]>>

\* the row of D was dropped on the middle of the row of T, T being outside
\* the subtree of D (accepted) or a descendant of D (rejected)
DroppedOnMiddle(accepted) ==
    /\ call.op \in {"drop", "drop, undo"}
    /\ call.zone = "middle"
    /\ call.draggedId # call.nodeId
    /\ call.draggedId # "root"
    /\ accepted = (call.nodeId \notin IdSet(NodeOf(call.h.present, call.draggedId)))

\* C36: a single drag-to-reparent gesture on the hierarchy adds exactly one
\* entry to past, so that one undo after the gesture restores the tree that
\* was present before the gesture.
C36_GestureIsOneEntry ==
    DroppedOnMiddle(TRUE) =>
        IF call.op = "drop"
        THEN Len(history.past) = Len(call.h.past) + 1
        ELSE history.present = call.h.present

Timeline(h) == h.past \o <<h.present>> \o Reverse(h.future)

\* C33: undo and redo only move a cursor: the timeline is the same sequence
\* before and after any undo or redo, so an undo followed by a redo, and a
\* redo followed by an undo, each restore past, present and future exactly
\* when the first step was not a no-op.
C33_CursorOnly ==
    call.op \in {"undo", "redo"} =>
        /\ Timeline(history) = Timeline(call.h)
        /\ (call.op = "undo" /\ canUndo(call.h)) => redo(history) = call.h
        /\ (call.op = "redo" /\ canRedo(call.h)) => undo(history) = call.h

\* a redo was made with an entry in past and two states undone
C33_Witness ==
    /\ call.op = "redo"
    /\ Len(call.h.past) >= 1
    /\ Len(call.h.future) = 2
    /\ Len(history.past) = Len(call.h.past) + 1
    /\ history.present = call.h.future[2]

(***************************************************************************)
(* The size of the history in a long session (SpecSession).                *)
(***************************************************************************)
\* C32: in every state reachable by apply, undo, redo and replace,
\* length(past) + length(future) <= MAX_HISTORY, hence length(past) <=
\* MAX_HISTORY also after redo, which appends to past without capping.
C32_PastPlusFutureBounded ==
    /\ Len(history.past) + Len(history.future) <= MAX_HISTORY
    /\ Len(history.past) <= MAX_HISTORY

\* more than MAX_HISTORY edits were made, two were undone and a redo has
\* just appended to past: past and future hold MAX_HISTORY snapshots together
C32_Witness ==
    /\ call.op = "redo"
    /\ EditsMade > MAX_HISTORY
    /\ Len(history.past) = MAX_HISTORY - 1
    /\ Len(history.future) = 1

(***************************************************************************)
(* Null edits (SpecHistory).                                               *)
(***************************************************************************)
\* C34: history is never polluted by null edits: an edit whose resulting
\* tree has the same content as the present adds no entry to past and does
\* not clear future, so that no two neighbouring snapshots of past,
\* present, future are structurally equal.
C34_NoNullEdits ==
    \A i \in 1..(Len(Timeline(history)) - 1) :
        Content(Timeline(history)[i]) # Content(Timeline(history)[i + 1])

(***************************************************************************)
(* Where a paste puts the clone (SpecScene).                               *)
(***************************************************************************)
\* the number of nodes of a tree
Size(t) == Len(IdSeq(t))

\* the clone of the source has been put in S's parent directly after S, the
\* other children in their order, and the tree has grown by the size of the
\* source subtree
ClonePlaced ==
    LET before == call.h.present
        source == NodeOf(before, call.clipboardId)
        parentId == ParentIdOf(before, call.selectedId)
        siblings == ChildIds(NodeOf(before, parentId))
        after == NodeOf(history.present, parentId)
    IN /\ selectedId \notin IdSet(before)
       /\ ParentIdOf(history.present, selectedId) = parentId
       /\ IndexIn(after, selectedId) = IndexIn(NodeOf(before, parentId), call.selectedId) + 1
       /\ Without(ChildIds(after), selectedId) = siblings
       /\ Size(NodeOf(history.present, selectedId)) = Size(source)
       /\ Size(history.present) = Size(before) + Size(source)

\* C35 as stated: a paste with a clipboard node present in the tree and a
\* selected non-root node S inserts the clone of the clipboard subtree as a
\* child of S's parent at the index directly after S; the other children
\* keep their relative order, the source subtree is unchanged, and the tree
\* grows by exactly the number of nodes of the source subtree.
C35_SourceUnchanged ==
    call.op = "paste" =>
        /\ ClonePlaced
        /\ Content(NodeOf(history.present, call.clipboardId))
              = Content(NodeOf(call.h.present, call.clipboardId))

\* C35 (amended): as stated, except that the source subtree is unchanged
\* only when S lies outside it or is its root; when S is a proper
\* descendant of the clipboard node the clone lands inside the source
\* subtree, which grows by it.  In both cases taking the clone out of the
\* new tree gives back the tree before the paste.
C35_PasteAfterSelected ==
    call.op = "paste" =>
        LET before == call.h.present
            source == NodeOf(before, call.clipboardId)
            inside == call.selectedId \in IdSet(source) \ {source.id}
            sourceAfter == NodeOf(history.present, call.clipboardId)
        IN /\ ClonePlaced
           /\ IF inside
              THEN Size(sourceAfter) = 2 * Size(source)
              ELSE Content(sourceAfter) = Content(source)
           /\ Content(removeNode(history.present, selectedId, nextRef).newRoot)
                 = Content(before)

\* a node was copied, its child selected, and the paste has put the clone
\* of the node and its child inside the node, after the child
C35_Witness ==
    /\ call.op = "paste"
    /\ ParentIdOf(call.h.present, call.selectedId) = call.clipboardId
    /\ Size(NodeOf(history.present, selectedId)) = 2
    /\ Size(NodeOf(history.present, call.clipboardId)) = 4
    /\ ChildIds(NodeOf(history.present, call.clipboardId))[2] = selectedId

(***************************************************************************)
(* The selection (SpecPanels).                                             *)
(***************************************************************************)
\* C38: in every state reachable by select, add, delete, reparent, reorder,
\* paste, undo and redo, selectedId is either null or the id of a node in
\* the present tree.
C38_SelectionInTree ==
    selectedId = NullId \/ selectedId \in IdSet(history.present)

=============================================================================
